---------------------------- MODULE Spec2Model ----------------------------
(***************************************************************************)
(* A model of the overflow detection and source attribution engine of      *)
(* lingo-guardian (packages/cli): Auditor.detectOverflows, the lint        *)
(* command's deduplicateResults, SourceFinder, TranslationMapper and the   *)
(* Auditor.audit / runLintAudit control flow.                              *)
(*                                                                         *)
(* Every component has its own specification (SpecDetect, SpecDedup, ...)  *)
(* over the variables it owns; the variables of the other components are   *)
(* parked at their initial value by that specification.                    *)
(***************************************************************************)
EXTENDS Integers, Sequences, FiniteSets, TLC

VARIABLES
    page,              \* the rendered DOM under body, in document order
    detected,          \* whether detectOverflows has returned
    issues,            \* what detectOverflows returned
    results,           \* AuditResult[] handed to deduplicateResults
    deduplicated,      \* whether deduplicateResults has returned
    processedResults,  \* what deduplicateResults returned
    i18nMap,           \* SourceFinder.i18nMap
    jsxMap,            \* SourceFinder.jsxMap
    stringMap,         \* SourceFinder.stringMap
    scanned,           \* SourceFinder.scanned
    scanAt,            \* the line of ScanOrder that scanFile is reading
    lookup,            \* the last findSource call: its argument and result
    localesDir,        \* the files of <project>/locales, in readdir order
    englishLocale,     \* TranslationMapper.englishLocale
    translationMaps,   \* TranslationMapper.translationMaps
    loadState,         \* whether load() is yet to run, resolved or rejected
    original,          \* the last findEnglishOriginal call and its result
    locales,           \* the locales runLintAudit audits, in order
    failOnError,       \* options.failOnError
    lintPc,            \* where runLintAudit is
    localeAt,          \* the position in locales of the locale being audited
    browser,           \* whether Auditor.browser is set
    context,           \* whether Auditor.context is set
    calls,             \* the calls made on an Auditor used on its own
    openPages,         \* the pages of the browser context that are open
    thrownBy,          \* the call whose failure is propagating, if any
    transforms,        \* the transform each applyLocaleTransform call applied
    auditResults,      \* runLintAudit's results array
    exitCode,          \* the code process.exit was called with, if it was
    input,             \* the argument of a function applied on its own
    applied,           \* whether that function has returned
    output,            \* what it returned
    enable,            \* config.enable of the component using the hook
    mounted,           \* whether that component is mounted
    effect,            \* the run of the detection effect that is active, 0 if none
    effectRuns,        \* how many times the detection effect has run
    checkedElements,   \* checkedElementsRef.current
    observer,          \* the effect run whose ResizeObserver observes body, 0 if none
    timeouts,          \* the scan timers that are pending
    frames,            \* the animation-frame callbacks that are pending
    overflowed,        \* the elements of the document that overflow now
    highlights,        \* the highlightIssue calls that went past the duplicate test
    onIssueCalls       \* the calls of config.onIssue

detectVars == <<page, detected, issues>>
dedupVars  == <<results, deduplicated, processedResults>>
finderVars == <<i18nMap, jsxMap, stringMap, scanned, scanAt, lookup>>

mapperVars == <<localesDir, englishLocale, translationMaps, loadState, original>>
auditVars  == <<locales, failOnError, lintPc, localeAt, browser, context, calls,
                openPages, thrownBy, transforms, auditResults, exitCode>>

callVars   == <<input, applied, output>>
hookVars   == <<enable, mounted, effect, effectRuns, checkedElements, observer,
                timeouts, frames, overflowed, highlights, onIssueCalls>>

vars == <<detectVars, dedupVars, finderVars, mapperVars, auditVars, callVars, hookVars>>

\* The variables a component's specification leaves alone.
exceptDetectVars == <<dedupVars, finderVars, mapperVars, auditVars, callVars, hookVars>>
exceptDedupVars  == <<detectVars, finderVars, mapperVars, auditVars, callVars, hookVars>>
exceptFinderVars == <<detectVars, dedupVars, mapperVars, auditVars, callVars, hookVars>>
exceptMapperVars == <<detectVars, dedupVars, finderVars, auditVars, callVars, hookVars>>
exceptAuditVars  == <<detectVars, dedupVars, finderVars, mapperVars, callVars, hookVars>>
exceptCallVars   == <<detectVars, dedupVars, finderVars, mapperVars, auditVars, hookVars>>
exceptHookVars   == <<detectVars, dedupVars, finderVars, mapperVars, auditVars, callVars>>

\* The value a component's variables keep under another component's
\* specification.
DetectParked == page = <<>> /\ detected = FALSE /\ issues = <<>>
DedupParked == results = <<>> /\ deduplicated = FALSE /\ processedResults = <<>>
FinderParked ==
    /\ i18nMap = <<>> /\ jsxMap = <<>> /\ stringMap = <<>>
    /\ scanned = FALSE /\ scanAt = 1 /\ lookup = <<>>
MapperParked ==
    /\ localesDir = <<>> /\ englishLocale = <<>> /\ translationMaps = <<>>
    /\ loadState = "idle" /\ original = <<>>
AuditParked ==
    /\ locales = <<>> /\ failOnError = FALSE /\ lintPc = "start" /\ localeAt = 1
    /\ browser = FALSE /\ openPages = {} /\ thrownBy = "" /\ auditResults = <<>>
    /\ exitCode = <<>> /\ transforms = <<>> /\ context = FALSE /\ calls = <<>>
CallParked == input = <<>> /\ applied = FALSE /\ output = <<>>
HookParked ==
    /\ enable = FALSE /\ mounted = FALSE /\ effect = 0 /\ effectRuns = 0
    /\ checkedElements = {} /\ observer = 0 /\ timeouts = {} /\ frames = <<>>
    /\ overflowed = {} /\ highlights = <<>> /\ onIssueCalls = <<>>

ExceptDetectParked == DedupParked /\ FinderParked /\ MapperParked /\ AuditParked /\ CallParked
    /\ HookParked
ExceptDedupParked  == DetectParked /\ FinderParked /\ MapperParked /\ AuditParked /\ CallParked
    /\ HookParked
ExceptFinderParked == DetectParked /\ DedupParked /\ MapperParked /\ AuditParked /\ CallParked
    /\ HookParked
ExceptMapperParked == DetectParked /\ DedupParked /\ FinderParked /\ AuditParked /\ CallParked
    /\ HookParked
ExceptAuditParked  == DetectParked /\ DedupParked /\ FinderParked /\ MapperParked /\ CallParked
    /\ HookParked
ExceptCallParked   == DetectParked /\ DedupParked /\ FinderParked /\ MapperParked /\ AuditParked
    /\ HookParked
ExceptHookParked   == DetectParked /\ DedupParked /\ FinderParked /\ MapperParked /\ AuditParked
    /\ CallParked

(***************************************************************************)
(* Small helpers on sequences.                                             *)
(***************************************************************************)
Range(s) == {s[i] : i \in 1..Len(s)}

SeqsUpTo(S, n) == UNION {[1..k -> S] : k \in 0..n}

Max(a, b) == IF a > b THEN a ELSE b

(***************************************************************************)
(* constants.ts                                                            *)
(***************************************************************************)
EXCLUDED_SELECTORS == {"script", "style", "noscript", "svg", "path"}

(***************************************************************************)
(* Auditor.detectOverflows                                                 *)
(*                                                                         *)
(* An element is a record: tag (lower-cased tagName), depth (1 = child of  *)
(* body; the parent of an element is the nearest preceding element of      *)
(* depth one less), the bounding rectangle's size and the four scroll and  *)
(* offset dimensions.                                                      *)
(***************************************************************************)
Element(tag, depth, g) ==
    [tag |-> tag, depth |-> depth,
     rectW |-> g[1], rectH |-> g[2],
     offsetWidth |-> g[3], scrollWidth |-> g[4],
     offsetHeight |-> g[5], scrollHeight |-> g[6]]

\* j is an ancestor (below body) of i in the document-order encoding.
IsAncestor(pg, j, i) ==
    /\ j < i
    /\ pg[j].depth < pg[i].depth
    /\ \A k \in (j + 1)..i : pg[k].depth > pg[j].depth

\* The TreeWalker's acceptNode: FILTER_REJECT drops the element and its
\* whole subtree, so an element is visited iff neither it nor an ancestor
\* has an excluded tag.
\* A traversal that visits every element and drops those with an excluded
\* tag afterwards.
VisitedThenFiltered(pg, i) == pg[i].tag \notin EXCLUDED_SELECTORS

Visited(pg, i) ==
    /\ pg[i].tag \notin EXCLUDED_SELECTORS
    /\ \A j \in 1..(i - 1) :
          IsAncestor(pg, j, i) => pg[j].tag \notin EXCLUDED_SELECTORS

TOLERANCE == 1
ERROR_ABOVE == 50
WARNING_ABOVE == 20

hasHorizontalOverflowBoundaryInclusive(el) == el.scrollWidth >= el.offsetWidth + TOLERANCE

hasHorizontalOverflow(el) == el.scrollWidth > el.offsetWidth + TOLERANCE

hasVerticalOverflow(el) == el.scrollHeight > el.offsetHeight + TOLERANCE

overflowDirectionOf(el) ==
    IF hasHorizontalOverflow(el) /\ hasVerticalOverflow(el) THEN "both"
    ELSE IF hasHorizontalOverflow(el) THEN "horizontal"
    ELSE "vertical"

overflowAmountOf(el) ==
    Max(el.scrollWidth - el.offsetWidth, el.scrollHeight - el.offsetHeight)

severityOfInclusive(amount) ==
    IF amount >= ERROR_ABOVE THEN "error"
    ELSE IF amount >= WARNING_ABOVE THEN "warning"
    ELSE "info"

severityOf(amount) ==
    IF amount > ERROR_ABOVE THEN "error"
    ELSE IF amount > WARNING_ABOVE THEN "warning"
    ELSE "info"

suggestionOf(el) ==
    IF overflowDirectionOf(el) = "horizontal"
    THEN IF el.tag = "table" THEN "Add parent with overflow-x-auto"
         ELSE "Try: truncate, break-words, or w-full"
    ELSE "Try: h-auto, line-clamp, or overflow-y-auto"

\* The issue pushed for element i of the page.  node is the element's
\* position in the page: it stands for the element's identity.
IssueOf(pg, i, locale) ==
    [node |-> i,
     tagName |-> pg[i].tag,
     offsetWidth |-> pg[i].offsetWidth,
     scrollWidth |-> pg[i].scrollWidth,
     offsetHeight |-> pg[i].offsetHeight,
     scrollHeight |-> pg[i].scrollHeight,
     overflowDirection |-> overflowDirectionOf(pg[i]),
     severity |-> severityOf(overflowAmountOf(pg[i])),
     suggestion |-> suggestionOf(pg[i]),
     locale |-> locale]

\* Whether the loop body pushes an issue for element i.
Flagged(pg, i) ==
    /\ Visited(pg, i)
    /\ ~(pg[i].rectW = 0 \/ pg[i].rectH = 0)
    /\ (hasHorizontalOverflow(pg[i]) \/ hasVerticalOverflow(pg[i]))

RECURSIVE detectFrom(_, _, _)
detectFrom(pg, i, locale) ==
    IF i > Len(pg) THEN <<>>
    ELSE (IF Flagged(pg, i) THEN <<IssueOf(pg, i, locale)>> ELSE <<>>)
         \o detectFrom(pg, i + 1, locale)

detectOverflows(pg, locale) == detectFrom(pg, 1, locale)

(***************************************************************************)
(* Pages of the detection specification: up to MaxElems sibling elements   *)
(* under body whose geometry is drawn from Geometries.                     *)
(***************************************************************************)
MaxElems == 2

BoxW == 100
BoxH == 40

\* scroll - offset differences around the tolerance and the two severity
\* thresholds, and the amounts 10, 25 and 60 on either axis alone.
ThresholdDeltas == {1, 2, 20, 21, 50, 51}
ExampleDeltas == {10, 25, 60}

Rendered(dw, dh) == <<BoxW, BoxH, BoxW, BoxW + dw, BoxH, BoxH + dh>>

Geometries ==
    {Rendered(dw, dh) : dw \in ThresholdDeltas, dh \in ThresholdDeltas}
    \cup {Rendered(d, 0) : d \in ExampleDeltas}
    \cup {Rendered(0, d) : d \in ExampleDeltas}
    \cup {Rendered(-1, -1)}
    \cup {<<0, BoxH, 0, 60, BoxH, BoxH>>,       \* collapsed to zero width
          <<BoxW, 0, BoxW, BoxW, 0, 60>>}       \* collapsed to zero height

DetectElements == {Element("div", 1, g) : g \in Geometries}

DetectLocales == {"en"}

InitDetect ==
    /\ page \in SeqsUpTo(DetectElements, MaxElems)
    /\ detected = FALSE
    /\ issues = <<>>
    /\ ExceptDetectParked

DetectOverflows ==
    /\ ~detected
    /\ detected' = TRUE
    /\ \E locale \in DetectLocales : issues' = detectOverflows(page, locale)
    /\ UNCHANGED <<page, exceptDetectVars>>

NextDetect == DetectOverflows

SpecDetect == InitDetect /\ [][NextDetect]_vars

(***************************************************************************)
(* Claims about the detection pass.                                        *)
(***************************************************************************)
IssuesFor(i) == {k \in 1..Len(issues) : issues[k].node = i}

WidthExceeds(el) == el.scrollWidth - el.offsetWidth >= 2
HeightExceeds(el) == el.scrollHeight - el.offsetHeight >= 2
NonZeroRect(el) == el.rectW # 0 /\ el.rectH # 0

\* C1: one detection pass emits exactly one issue for every visited element
\* with a non-zero bounding rectangle whose scrollWidth exceeds offsetWidth
\* + 1 or whose scrollHeight exceeds offsetHeight + 1 (each axis on its own),
\* and none for any other element; the direction is both / horizontal /
\* vertical by which axis predicates hold; scrollWidth = offsetWidth + 2 is
\* flagged and scrollWidth = offsetWidth + 1 (alone) is not.
C1_OneIssuePerOverflowingElement ==
    detected =>
        /\ \A i \in 1..Len(page) :
              LET el == page[i]
                  overflowing == /\ Visited(page, i)
                                 /\ NonZeroRect(el)
                                 /\ (WidthExceeds(el) \/ HeightExceeds(el))
              IN  /\ Cardinality(IssuesFor(i)) = (IF overflowing THEN 1 ELSE 0)
                  /\ (Visited(page, i) /\ NonZeroRect(el)
                        /\ el.scrollWidth = el.offsetWidth + 2)
                       => IssuesFor(i) # {}
                  /\ (el.scrollWidth = el.offsetWidth + 1 /\ ~HeightExceeds(el))
                       => IssuesFor(i) = {}
        /\ \A k \in 1..Len(issues) :
              LET el == page[issues[k].node]
              IN  /\ issues[k].node \in 1..Len(page)
                  /\ (WidthExceeds(el) /\ HeightExceeds(el))
                       => issues[k].overflowDirection = "both"
                  /\ (WidthExceeds(el) /\ ~HeightExceeds(el))
                       => issues[k].overflowDirection = "horizontal"
                  /\ (~WidthExceeds(el) /\ HeightExceeds(el))
                       => issues[k].overflowDirection = "vertical"

\* A pass over a page holding an element with scrollWidth = offsetWidth + 2
\* (flagged, horizontal) and one with scrollWidth = offsetWidth + 1 (not
\* flagged).
C1_Witness ==
    /\ detected
    /\ Len(page) = 2
    /\ page[1].scrollWidth = page[1].offsetWidth + 2
    /\ page[1].scrollHeight = page[1].offsetHeight + 1
    /\ page[2].scrollWidth = page[2].offsetWidth + 1
    /\ page[2].scrollHeight = page[2].offsetHeight + 1
    /\ Len(issues) = 1
    /\ issues[1].node = 1
    /\ issues[1].overflowDirection = "horizontal"

AmountOfIssue(is) ==
    LET dw == is.scrollWidth - is.offsetWidth
        dh == is.scrollHeight - is.offsetHeight
    IN  IF dw >= dh THEN dw ELSE dh

\* C2: for every emitted issue, with overflowAmount the larger of
\* scrollWidth - offsetWidth and scrollHeight - offsetHeight, severity is
\* error exactly when overflowAmount > 50, warning exactly when
\* 20 < overflowAmount <= 50 and info otherwise; the amounts 10, 25 and 60
\* give info, warning and error.
C2_SeverityThresholds ==
    detected =>
        \A k \in 1..Len(issues) :
            LET a == AmountOfIssue(issues[k])
                s == issues[k].severity
            IN  /\ (s = "error") <=> (a > 50)
                /\ (s = "warning") <=> (20 < a /\ a <= 50)
                /\ (s = "info") <=> (a <= 20)
                /\ a = 10 => s = "info"
                /\ a = 25 => s = "warning"
                /\ a = 60 => s = "error"

\* A pass that emitted an issue of amount 25 (warning) and one of amount 60
\* (error).
C2_Witness ==
    /\ detected
    /\ \E k \in 1..Len(issues) :
          AmountOfIssue(issues[k]) = 25 /\ issues[k].severity = "warning"
    /\ \E k \in 1..Len(issues) :
          AmountOfIssue(issues[k]) = 60 /\ issues[k].severity = "error"

\* C3 as stated: an issue whose overflow amount is exactly 20 has severity
\* warning, and an issue whose overflow amount is exactly 50 has severity
\* warning.
C3_BoundariesAsStated ==
    detected =>
        \A k \in 1..Len(issues) :
            /\ AmountOfIssue(issues[k]) = 20 => issues[k].severity = "warning"
            /\ AmountOfIssue(issues[k]) = 50 => issues[k].severity = "warning"

\* C3 amended: an issue whose overflow amount is exactly 20 has severity
\* info (not warning), and an issue whose overflow amount is exactly 50 has
\* severity warning (not error).
C3_BoundariesStrict ==
    detected =>
        \A k \in 1..Len(issues) :
            /\ AmountOfIssue(issues[k]) = 20 => issues[k].severity = "info"
            /\ AmountOfIssue(issues[k]) = 50 => issues[k].severity = "warning"

\* A pass that emitted an issue of amount exactly 20 and one of amount
\* exactly 50.
C3_Witness ==
    /\ detected
    /\ \E k \in 1..Len(issues) : AmountOfIssue(issues[k]) = 20
    /\ \E k \in 1..Len(issues) : AmountOfIssue(issues[k]) = 50


(***************************************************************************)
(* lint command: deduplicateResults                                        *)
(*                                                                         *)
(* An optional field (sourceFile?: string, sourceLine?: number) is <<>>    *)
(* when undefined and <<v>> when set.  An AuditResult is a record          *)
(* [url, locale, issueCount, issues, duration]; of an issue the fields     *)
(* deduplicateResults reads (sourceFile, sourceLine, textContent,          *)
(* severity) and the selector are kept.                                    *)
(***************************************************************************)
None == <<>>
Some(v) == <<v>>

\* JavaScript truthiness of an optional string and of an optional number.
TruthyString(o) == o # None /\ o[1] # ""
TruthyNumber(o) == o # None /\ o[1] # 0

severityOrder(sev) ==
    CASE sev = "error" -> 3
      [] sev = "warning" -> 2
      [] sev = "info" -> 1

\* const key = issue.sourceFile && issue.sourceLine ? `${file}:${line}` : textContent
dedupKey(issue) ==
    IF TruthyString(issue.sourceFile) /\ TruthyNumber(issue.sourceLine)
    THEN issue.sourceFile[1] \o ":" \o ToString(issue.sourceLine[1])
    ELSE issue.textContent

\* A Map<string, issue> is the sequence of its <<key, value>> entries in
\* insertion order; Map.set on a present key keeps the key's position.
MapIndex(m, key) ==
    IF \E i \in 1..Len(m) : m[i][1] = key
    THEN CHOOSE i \in 1..Len(m) : m[i][1] = key
    ELSE 0

MapSet(m, key, value) ==
    IF MapIndex(m, key) = 0 THEN Append(m, <<key, value>>)
    ELSE [m EXCEPT ![MapIndex(m, key)] = <<key, value>>]

MapValues(m) == [i \in 1..Len(m) |-> m[i][2]]

\* The loop body with >= for >: a later issue of equal severity replaces
\* the retained one.
keepHighestOrLatest(m, issue) ==
    LET key == dedupKey(issue)
        at == MapIndex(m, key)
    IN  IF at = 0 \/ severityOrder(issue.severity) >= severityOrder(m[at][2].severity)
        THEN MapSet(m, key, issue)
        ELSE m

\* One iteration of the loop over result.issues.
keepHighest(m, issue) ==
    LET key == dedupKey(issue)
        at == MapIndex(m, key)
    IN  IF at = 0 \/ severityOrder(issue.severity) > severityOrder(m[at][2].severity)
        THEN MapSet(m, key, issue)
        ELSE m

RECURSIVE buildSourceMap(_, _, _)
buildSourceMap(iss, i, m) ==
    IF i > Len(iss) THEN m
    ELSE buildSourceMap(iss, i + 1, keepHighest(m, iss[i]))

\* The spread that forgets to recompute issueCount.
dedupOneStaleCount(result) ==
    [result EXCEPT !.issues = MapValues(buildSourceMap(result.issues, 1, <<>>))]

\* The callback of results.map: a new object, the input's fields spread
\* into it, issues and issueCount replaced.
dedupOne(result) ==
    LET deduplicatedIssues == MapValues(buildSourceMap(result.issues, 1, <<>>))
    IN  [result EXCEPT !.issues = deduplicatedIssues,
                       !.issueCount = Len(deduplicatedIssues)]

deduplicateResults(rs) == [r \in 1..Len(rs) |-> dedupOne(rs[r])]

(***************************************************************************)
(* Inputs of the deduplication specification: one AuditResult per audited  *)
(* locale, issueCount = issues.length as Auditor.audit builds it, at most  *)
(* MaxIssues issues over all results.                                      *)
(***************************************************************************)
MaxIssues == 2

DedupLocales == <<"en", "de">>

\* (sourceFile, sourceLine) as detection and enrichment leave them: none, a
\* file and a line, a file and the line 0 (data-source="a.tsx:0"), a file
\* without a line (a fiber record with fileName only).
DedupSources ==
    {<<None, None>>, <<Some("a.tsx"), Some(1)>>, <<Some("a.tsx"), Some(0)>>,
     <<Some("a.tsx"), None>>}

\* Rendered texts; the second reads like the key of a.tsx line 1.
DedupTexts == {"Save", "a.tsx:1"}

Severities == {"error", "warning", "info"}

DedupIssue(src, text, sev) ==
    [sourceFile |-> src[1], sourceLine |-> src[2], textContent |-> text,
     severity |-> sev, selector |-> ""]

DedupIssues ==
    {DedupIssue(src, text, sev) :
        src \in DedupSources, text \in DedupTexts, sev \in Severities}

\* The k-th issue of a result comes from the k-th flagged element.
WithSelectors(iss) ==
    [k \in 1..Len(iss) |-> [iss[k] EXCEPT !.selector = "#e" \o ToString(k)]]

AuditResultOf(locale, iss) ==
    [url |-> "http://localhost:3000?lang=" \o locale,
     locale |-> locale,
     issueCount |-> Len(iss),
     issues |-> WithSelectors(iss),
     duration |-> 0]

\* The issues of a run are split over the audited locales: all of them in
\* the one result of a single-locale run, or cut in two for two locales.
InitDedup ==
    /\ \E all \in SeqsUpTo(DedupIssues, MaxIssues) :
         \/ results = <<AuditResultOf(DedupLocales[1], all)>>
         \/ \E cut \in 0..Len(all) :
               results = <<AuditResultOf(DedupLocales[1], SubSeq(all, 1, cut)),
                           AuditResultOf(DedupLocales[2], SubSeq(all, cut + 1, Len(all)))>>
    /\ deduplicated = FALSE
    /\ processedResults = <<>>
    /\ ExceptDedupParked

\* displayMode === 2 ? deduplicateResults(results) : results.  The function
\* assigns to no field of its argument.
DeduplicateResults ==
    /\ ~deduplicated
    /\ deduplicated' = TRUE
    /\ processedResults' = deduplicateResults(results)
    /\ UNCHANGED <<results, exceptDedupVars>>

NextDedup == DeduplicateResults

SpecDedup == InitDedup /\ [][NextDedup]_vars


(***************************************************************************)
(* Claims about deduplicateResults.                                        *)
(***************************************************************************)
\* Both parts of the source are known: a file name and a line number.  Line
\* numbers are 1-based; the line 0 that data-source="a.tsx:0" yields is no
\* line of a file.
SourceKnown(issue) ==
    /\ issue.sourceFile # <<>>
    /\ issue.sourceLine # <<>>
    /\ issue.sourceLine[1] >= 1

GroupKey(issue) ==
    IF SourceKnown(issue)
    THEN issue.sourceFile[1] \o ":" \o ToString(issue.sourceLine[1])
    ELSE issue.textContent

Outranks(a, b) ==
    \/ a = "error" /\ b \in {"warning", "info"}
    \/ a = "warning" /\ b = "info"

\* The position of the first issue of highest severity among those of key.
FirstOfHighest(in, key) ==
    CHOOSE i \in 1..Len(in) :
        /\ GroupKey(in[i]) = key
        /\ \A j \in 1..Len(in) :
              GroupKey(in[j]) = key =>
                  /\ ~Outranks(in[j].severity, in[i].severity)
                  /\ (j < i => Outranks(in[i].severity, in[j].severity))

\* C4: for each AuditResult, deduplicateResults groups the issues by
\* 'sourceFile:sourceLine' when both are known and by the raw textContent
\* otherwise; its output holds exactly one issue per key of the input, the
\* first issue in input order among those of highest severity in the group.
C4_OnePerKeyFirstOfHighest ==
    deduplicated =>
        /\ Len(processedResults) = Len(results)
        /\ \A r \in 1..Len(results) :
              LET in == results[r].issues
                  out == processedResults[r].issues
                  keys == {GroupKey(in[i]) : i \in 1..Len(in)}
              IN  /\ Len(out) = Cardinality(keys)
                  /\ \A key \in keys :
                        Cardinality({j \in 1..Len(out) : GroupKey(out[j]) = key}) = 1
                  /\ \A j \in 1..Len(out) :
                        /\ GroupKey(out[j]) \in keys
                        /\ out[j] = in[FirstOfHighest(in, GroupKey(out[j]))]

\* Two distinct issues of one source line and equal severity went in, and
\* the first came out.
C4_Witness ==
    /\ deduplicated
    /\ \E r \in 1..Len(results) :
          LET in == results[r].issues
              out == processedResults[r].issues
          IN  /\ Len(in) = 2
              /\ SourceKnown(in[1]) /\ SourceKnown(in[2])
              /\ GroupKey(in[1]) = GroupKey(in[2])
              /\ in[1].severity = in[2].severity
              /\ in[1] # in[2]
              /\ out = <<in[1]>>

\* C5: deduplicateResults returns a new AuditResult per input result whose
\* issueCount is the length of its retained issue list, and leaves every
\* input AuditResult as it was (issue list, order, issueCount, issue fields).
C5_CountRecomputedInputUntouched ==
    /\ [](deduplicated =>
            /\ Len(processedResults) = Len(results)
            /\ \A r \in 1..Len(results) :
                  /\ processedResults[r].issueCount = Len(processedResults[r].issues)
                  /\ processedResults[r].locale = results[r].locale)
    /\ [][results' = results]_vars

\* A warning and an error of one source line collapsed to the error: the
\* input still counts 2 issues, the output 1.
C5_Witness ==
    /\ deduplicated
    /\ \E r \in 1..Len(results) :
          LET in == results[r].issues
              out == processedResults[r].issues
          IN  /\ Len(in) = 2 /\ results[r].issueCount = 2
              /\ SourceKnown(in[1])
              /\ GroupKey(in[1]) = GroupKey(in[2])
              /\ in[1].severity = "warning" /\ in[2].severity = "error"
              /\ out = <<in[2]>>
              /\ processedResults[r].issueCount = 1


(***************************************************************************)
(* JavaScript strings.                                                     *)
(***************************************************************************)
CharAt(s, i) == SubSeq(s, i, i)

\* String.prototype.includes
Includes(s, sub) ==
    \E i \in 0..(Len(s) - Len(sub)) : SubSeq(s, i + 1, i + Len(sub)) = sub

StartsWith(s, prefix) ==
    Len(prefix) <= Len(s) /\ SubSeq(s, 1, Len(prefix)) = prefix

EndsWith(s, suffix) ==
    Len(suffix) <= Len(s)
    /\ SubSeq(s, Len(s) - Len(suffix) + 1, Len(s)) = suffix

\* The characters /\s/ matches, among those the model's texts use.
IsWhitespace(c) == c \in {" ", "\t", "\n"}

RECURSIVE TrimStart(_)
TrimStart(s) ==
    IF Len(s) > 0 /\ IsWhitespace(CharAt(s, 1))
    THEN TrimStart(SubSeq(s, 2, Len(s)))
    ELSE s

RECURSIVE TrimEnd(_)
TrimEnd(s) ==
    IF Len(s) > 0 /\ IsWhitespace(CharAt(s, Len(s)))
    THEN TrimEnd(SubSeq(s, 1, Len(s) - 1))
    ELSE s

Trim(s) == TrimEnd(TrimStart(s))

\* s.replace(/\s+/g, ' ')
RECURSIVE CollapseWhitespace(_)
CollapseWhitespace(s) ==
    IF Len(s) = 0 THEN ""
    ELSE IF IsWhitespace(CharAt(s, 1))
         THEN " " \o CollapseWhitespace(TrimStart(s))
         ELSE CharAt(s, 1) \o CollapseWhitespace(SubSeq(s, 2, Len(s)))

UpperCaseLetters == "ABCDEFGHIJKLMNOPQRSTUVWXYZ"
LowerCaseLetters == "abcdefghijklmnopqrstuvwxyz"

LowerChar(c) ==
    IF \E i \in 1..Len(UpperCaseLetters) : CharAt(UpperCaseLetters, i) = c
    THEN CharAt(LowerCaseLetters,
                CHOOSE i \in 1..Len(UpperCaseLetters) : CharAt(UpperCaseLetters, i) = c)
    ELSE c

RECURSIVE ToLowerCase(_)
ToLowerCase(s) ==
    IF Len(s) = 0 THEN ""
    ELSE LowerChar(CharAt(s, 1)) \o ToLowerCase(SubSeq(s, 2, Len(s)))

Digits == "0123456789"

IsDigit(c) == \E i \in 1..Len(Digits) : CharAt(Digits, i) = c

DigitValue(c) == (CHOOSE i \in 1..Len(Digits) : CharAt(Digits, i) = c) - 1

RECURSIVE StringToNat(_)
StringToNat(s) ==
    IF Len(s) = 0 THEN 0
    ELSE 10 * StringToNat(SubSeq(s, 1, Len(s) - 1)) + DigitValue(CharAt(s, Len(s)))

(***************************************************************************)
(* JavaScript plain objects used as maps (TextLocationMap = {}).           *)
(*                                                                         *)
(* The own properties are a sequence of [key, locations] records in the    *)
(* order they were created.  A property read that finds no own property    *)
(* goes on to Object.prototype, and Object.entries lists the own           *)
(* properties whose key is an array index first, in ascending numeric      *)
(* order, then the others in creation order.                               *)
(***************************************************************************)
OwnIndex(map, key) ==
    IF \E i \in 1..Len(map) : map[i].key = key
    THEN CHOOSE i \in 1..Len(map) : map[i].key = key
    ELSE 0

\* Members of Object.prototype whose name survives normalizeText (it is
\* lower case): constructor is the function Object (truthy, length 1, no
\* element 0, no push), __proto__ is the accessor yielding Object.prototype
\* (truthy, no length, no push).
InheritedFunctionKeys == {"constructor"}
InheritedObjectKeys == {"__proto__"}
InheritedKeys == InheritedFunctionKeys \cup InheritedObjectKeys

\* Whether map[key] is truthy.
PropertyTruthy(map, key) == OwnIndex(map, key) # 0 \/ key \in InheritedKeys

MaxArrayIndexLen == 9

\* A canonical array index (the model keeps to those of at most
\* MaxArrayIndexLen digits, all below 2^32 - 1).
IsArrayIndex(key) ==
    /\ Len(key) \in 1..MaxArrayIndexLen
    /\ \A i \in 1..Len(key) : IsDigit(CharAt(key, i))
    /\ (Len(key) > 1 => CharAt(key, 1) # "0")

RECURSIVE SortByIndex(_)
SortByIndex(entries) ==
    IF Len(entries) = 0 THEN <<>>
    ELSE LET least == CHOOSE i \in 1..Len(entries) :
                         \A j \in 1..Len(entries) :
                            StringToNat(entries[i].key) <= StringToNat(entries[j].key)
         IN  <<entries[least]>>
             \o SortByIndex(SubSeq(entries, 1, least - 1)
                            \o SubSeq(entries, least + 1, Len(entries)))

IsIndexEntry(e) == IsArrayIndex(e.key)
IsNamedEntry(e) == ~IsArrayIndex(e.key)

ObjectEntries(map) ==
    SortByIndex(SelectSeq(map, IsIndexEntry)) \o SelectSeq(map, IsNamedEntry)

(***************************************************************************)
(* SourceFinder                                                            *)
(***************************************************************************)
\* normalizeText: trim, collapse whitespace, lower-case.
normalizeText(text) == ToLowerCase(CollapseWhitespace(Trim(text)))

MIN_TEXT_LENGTH == 3

\* addToMap ends in a TypeError when map[normalizedText] is an inherited
\* member: it is truthy, so no array is created, and it has no push.
addToMapThrows(map, text) ==
    LET n == normalizeText(text)
    IN  /\ Len(n) >= MIN_TEXT_LENGTH
        /\ OwnIndex(map, n) = 0
        /\ n \in InheritedKeys

\* addToMap when it returns normally.
addToMap(map, text, file, line) ==
    LET n == normalizeText(text)
        loc == [file |-> file, line |-> line, priority |-> "string"]
    IN  IF Len(n) < MIN_TEXT_LENGTH THEN map
        ELSE IF OwnIndex(map, n) = 0
             THEN Append(map, [key |-> n, locations |-> <<loc>>])
             ELSE [map EXCEPT ![OwnIndex(map, n)].locations = Append(@, loc)]

\* A SourceLocation | null.  file and line are optional: the object
\* findInMap builds from an inherited member has neither.
NullLocation == [file |-> None, line |-> None, priority |-> "null"]

LocationWith(loc, priority) ==
    [file |-> Some(loc.file), line |-> Some(loc.line), priority |-> priority]

PartialMatch(key, text) == Includes(key, text) \/ Includes(text, key)

\* The position in Object.entries(map) of the first entry the partial
\* match accepts, 0 when there is none.
FirstPartial(entries, text) ==
    IF \E i \in 1..Len(entries) :
          Len(entries[i].locations) > 0 /\ PartialMatch(entries[i].key, text)
    THEN CHOOSE i \in 1..Len(entries) :
            /\ Len(entries[i].locations) > 0 /\ PartialMatch(entries[i].key, text)
            /\ \A j \in 1..(i - 1) :
                  ~(Len(entries[j].locations) > 0 /\ PartialMatch(entries[j].key, text))
    ELSE 0

findInMap(text, map, priority) ==
    LET own == OwnIndex(map, text)
        entries == ObjectEntries(map)
        at == FirstPartial(entries, text)
    IN  IF own # 0 /\ Len(map[own].locations) > 0
        THEN LocationWith(map[own].locations[1], priority)
        ELSE IF own = 0 /\ text \in InheritedFunctionKeys
        THEN [file |-> None, line |-> None, priority |-> priority]
        ELSE IF at # 0
        THEN LocationWith(entries[at].locations[1], priority)
        ELSE NullLocation

findSource(textContent, i18n, jsx, str) ==
    LET text == normalizeText(textContent)
    IN  IF findInMap(text, i18n, "i18n") # NullLocation
        THEN findInMap(text, i18n, "i18n")
        ELSE IF findInMap(text, jsx, "jsx") # NullLocation
        THEN findInMap(text, jsx, "jsx")
        ELSE findInMap(text, str, "string")

(***************************************************************************)
(* The scan, at the level of the strings extractStrings finds: the lines   *)
(* of ScanOrder are read in order, every match found in the current line   *)
(* goes through addToMap, and a TypeError out of addToMap ends scanFile    *)
(* for the current file (its catch), so that the scan goes on with the     *)
(* next file.                                                              *)
(***************************************************************************)
ScanOrder == << <<"a.tsx", 1>>, <<"a.tsx", 2>>, <<"b.tsx", 1>> >>

MaxEntries == 2

\* Texts found in the source, as written there.
SourceTexts == {"Get Started", "Start", "Constructor call", "constructor", "OK"}

\* Texts of overflowing elements.
RenderedTexts ==
    {"Get  Started", "Start now", "Constructor", "Sign in", ""}

MapKinds == {"i18n", "jsx", "string"}

MapOf(kind) ==
    CASE kind = "i18n" -> i18nMap
      [] kind = "jsx" -> jsxMap
      [] kind = "string" -> stringMap

RECURSIVE CountLocations(_)
CountLocations(map) ==
    IF Len(map) = 0 THEN 0
    ELSE Len(map[1].locations) + CountLocations(Tail(map))

EntriesRecorded ==
    CountLocations(i18nMap) + CountLocations(jsxMap) + CountLocations(stringMap)

\* The first line of the next file after position at.
NextFileAt(at) ==
    IF \E q \in (at + 1)..Len(ScanOrder) : ScanOrder[q][1] # ScanOrder[at][1]
    THEN CHOOSE q \in (at + 1)..Len(ScanOrder) :
            /\ ScanOrder[q][1] # ScanOrder[at][1]
            /\ \A r \in (at + 1)..(q - 1) : ScanOrder[r][1] = ScanOrder[at][1]
    ELSE Len(ScanOrder) + 1

InitFinder ==
    /\ i18nMap = <<>> /\ jsxMap = <<>> /\ stringMap = <<>>
    /\ scanned = FALSE
    /\ scanAt = 1
    /\ lookup = <<>>
    /\ ExceptFinderParked

\* extractStrings finds text in the current line with a pattern of the
\* given kind and adds it to that kind's map.
ExtractString(kind, text) ==
    /\ ~scanned
    /\ scanAt <= Len(ScanOrder)
    /\ IF addToMapThrows(MapOf(kind), text)
       THEN /\ scanAt' = NextFileAt(scanAt)
            /\ UNCHANGED <<i18nMap, jsxMap, stringMap>>
       ELSE /\ EntriesRecorded < MaxEntries
            /\ LET m == addToMap(MapOf(kind), text,
                                 ScanOrder[scanAt][1], ScanOrder[scanAt][2])
               IN  /\ i18nMap' = IF kind = "i18n" THEN m ELSE i18nMap
                   /\ jsxMap' = IF kind = "jsx" THEN m ELSE jsxMap
                   /\ stringMap' = IF kind = "string" THEN m ELSE stringMap
            /\ UNCHANGED scanAt
    /\ UNCHANGED <<scanned, lookup, exceptFinderVars>>

\* The loops of scanFile and scanDirectory move on to the next line.
NextLine ==
    /\ ~scanned
    /\ scanAt <= Len(ScanOrder)
    /\ scanAt' = scanAt + 1
    /\ UNCHANGED <<i18nMap, jsxMap, stringMap, scanned, lookup, exceptFinderVars>>

\* scan() returns.
FinishScan ==
    /\ ~scanned
    /\ scanAt > Len(ScanOrder)
    /\ scanned' = TRUE
    /\ UNCHANGED <<i18nMap, jsxMap, stringMap, scanAt, lookup, exceptFinderVars>>

\* runLintAudit looks an issue's text up once the scan is over.
FindSource(text) ==
    /\ scanned
    /\ lookup' = <<text, findSource(text, i18nMap, jsxMap, stringMap)>>
    /\ UNCHANGED <<i18nMap, jsxMap, stringMap, scanned, scanAt, exceptFinderVars>>

NextFinder ==
    \/ \E kind \in MapKinds, text \in SourceTexts : ExtractString(kind, text)
    \/ NextLine
    \/ FinishScan
    \/ \E text \in RenderedTexts : FindSource(text)

SpecFinder == InitFinder /\ [][NextFinder]_vars


(***************************************************************************)
(* Claims about SourceFinder.findSource                                    *)
(***************************************************************************)
\* Some key of the map equals, contains or is contained in the text.
MatchesIn(map, text) ==
    \E i \in 1..Len(map) : PartialMatch(map[i].key, text)

\* The location is the first one recorded in the map under a key matching
\* the text, and carries the label.
ComesFrom(map, text, loc, label) ==
    /\ loc.priority = label
    /\ \E i \in 1..Len(map) :
          /\ PartialMatch(map[i].key, text)
          /\ loc.file = Some(map[i].locations[1].file)
          /\ loc.line = Some(map[i].locations[1].line)

PriorityRespected(text, loc) ==
    /\ MatchesIn(i18nMap, text) => ComesFrom(i18nMap, text, loc, "i18n")
    /\ (~MatchesIn(i18nMap, text) /\ MatchesIn(jsxMap, text))
          => ComesFrom(jsxMap, text, loc, "jsx")

\* C6: whenever some key of the i18n map equals, contains or is contained
\* in the normalized query, findSource returns a location recorded in the
\* i18n map, labelled 'i18n', whatever the JSX and string maps hold; and
\* when no i18n key matches but a JSX key does, it returns a location
\* recorded in the JSX map, labelled 'jsx', whatever the string map holds.
C6_HighestMatchingMapWins ==
    lookup # <<>> => PriorityRespected(normalizeText(lookup[1]), lookup[2])

\* C6, for the queries whose normalized text does not name a function
\* every plain object inherits: for those the priority order is respected.
C6_HighestMatchingMapWinsOffInherited ==
    (lookup # <<>> /\ normalizeText(lookup[1]) \notin InheritedFunctionKeys)
        => PriorityRespected(normalizeText(lookup[1]), lookup[2])

\* C6: a text found in an i18n call and, elsewhere, in a string literal that
\* matches the query exactly has been looked up.
C6_Witness ==
    /\ lookup # <<>>
    /\ MatchesIn(i18nMap, normalizeText(lookup[1]))
    /\ OwnIndex(stringMap, normalizeText(lookup[1])) # 0
    /\ OwnIndex(i18nMap, normalizeText(lookup[1])) = 0
    /\ lookup[2].priority = "i18n"


(***************************************************************************)
(* SourceFinder.scan over a project tree                                   *)
(*                                                                         *)
(* An entry of a directory is a record: name, kind ("dir", "file"),        *)
(* readable (readdirSync or readFileSync succeeds on it), children (the    *)
(* entries of a directory, in readdir order) and lines (of a file; a line  *)
(* is the sequence of the [kind, text] matches extractStrings finds in     *)
(* it, in the order it hands them to addToMap: i18n calls, JSX text,       *)
(* string literals).  The maps are the fields of one record.               *)
(***************************************************************************)
EXTENSIONS == {".tsx", ".jsx", ".ts", ".js", ".vue", ".svelte", ".html"}

SKIP_DIRS == {"node_modules", ".next", "dist", "build", ".git", "coverage"}

\* path.relative(projectRoot, path.join(dir, name))
JoinPath(dir, name) == IF dir = "" THEN name ELSE dir \o "/" \o name

\* The addToMap calls of one line, up to the first that throws.
RECURSIVE addMatches(_, _, _, _)
addMatches(maps, matches, file, lineNumber) ==
    IF Len(matches) = 0 THEN [maps |-> maps, threw |-> FALSE]
    ELSE IF addToMapThrows(maps[Head(matches).kind], Head(matches).text)
    THEN [maps |-> maps, threw |-> TRUE]
    ELSE addMatches([maps EXCEPT ![Head(matches).kind] =
                        addToMap(@, Head(matches).text, file, lineNumber)],
                    Tail(matches), file, lineNumber)

\* The loop of scanFile over the lines; what extractStrings throws ends it
\* (the catch of scanFile).
RECURSIVE scanLines(_, _, _, _)
scanLines(maps, lines, file, lineNumber) ==
    IF Len(lines) = 0 THEN maps
    ELSE LET done == addMatches(maps, Head(lines), file, lineNumber)
         IN  IF done.threw THEN done.maps
             ELSE scanLines(done.maps, Tail(lines), file, lineNumber + 1)

scanFile(maps, entry, filePath) ==
    IF ~entry.readable THEN maps
    ELSE scanLines(maps, entry.lines, filePath, 1)

hasExtension(name) == \E ext \in EXTENSIONS : EndsWith(name, ext)

RECURSIVE scanDirectory(_, _, _)
RECURSIVE scanEntries(_, _, _)

\* The loop of scanDirectory over the entries readdirSync returned.
scanEntries(maps, entries, dir) ==
    IF Len(entries) = 0 THEN maps
    ELSE LET entry == Head(entries)
             fullPath == JoinPath(dir, entry.name)
             after ==
                 IF entry.kind = "dir"
                 THEN (IF entry.name \notin SKIP_DIRS
                       THEN scanDirectory(maps, entry, fullPath)
                       ELSE maps)
                 ELSE IF entry.kind = "file" /\ hasExtension(entry.name)
                 THEN scanFile(maps, entry, fullPath)
                 ELSE maps
         IN  scanEntries(after, Tail(entries), dir)

\* readdirSync throws on an unreadable directory, inside the try of this
\* very call.
scanDirectory(maps, directory, dir) ==
    IF ~directory.readable THEN maps
    ELSE scanEntries(maps, directory.children, dir)

(***************************************************************************)
(* The project trees scanned.                                              *)
(***************************************************************************)
Match(kind, text) == [kind |-> kind, text |-> text]

SourceFile(name, readable, lines) ==
    [name |-> name, kind |-> "file", readable |-> readable,
     children |-> <<>>, lines |-> lines]

Directory(name, readable, children) ==
    [name |-> name, kind |-> "dir", readable |-> readable,
     children |-> children, lines |-> <<>>]

HomeLines ==
    << <<Match("jsx", "Get Started")>>,
       <<Match("i18n", "Sign in"), Match("string", "primary")>> >>

\* const own = key !== 'constructor'; on its first line.
GuardLines ==
    << <<Match("string", "constructor")>>,
       <<Match("jsx", "Welcome back")>> >>

PageLines == << <<Match("jsx", "Start now"), Match("string", "Get Started")>> >>

RootEntries ==
    {SourceFile("home.tsx", TRUE, HomeLines),
     SourceFile("home.tsx", FALSE, HomeLines),
     SourceFile("guard.ts", TRUE, GuardLines),
     SourceFile("notes.md", TRUE, PageLines),
     Directory("src", TRUE, <<SourceFile("page.jsx", TRUE, PageLines)>>),
     Directory("src", FALSE, <<SourceFile("page.jsx", TRUE, PageLines)>>),
     Directory("src", TRUE, <<SourceFile("broken.js", FALSE, HomeLines),
                              SourceFile("page.jsx", TRUE, PageLines)>>),
     Directory("node_modules", TRUE, <<SourceFile("lib.js", TRUE, HomeLines)>>)}

MaxRootEntries == 3

ProjectTrees ==
    {Directory("", readable, children) :
        readable \in BOOLEAN,
        children \in {es \in SeqsUpTo(RootEntries, MaxRootEntries) :
                         \A i, j \in 1..Len(es) : es[i].name = es[j].name => i = j}}

InitScan ==
    /\ input \in ProjectTrees
    /\ applied = FALSE
    /\ output = <<>>
    /\ FinderParked
    /\ ExceptCallParked

\* scan(): scanDirectory(projectRoot), then scanned = true.
Scan ==
    /\ ~scanned
    /\ LET maps == scanDirectory([i18n |-> i18nMap, jsx |-> jsxMap,
                                  string |-> stringMap], input, "")
       IN  /\ i18nMap' = maps.i18n
           /\ jsxMap' = maps.jsx
           /\ stringMap' = maps.string
    /\ scanned' = TRUE
    /\ UNCHANGED <<scanAt, lookup, callVars, detectVars, dedupVars, mapperVars,
                   auditVars, hookVars>>

NextScan == Scan

SpecScan == InitScan /\ [][NextScan]_vars

(***************************************************************************)
(* Claims about SourceFinder.scan                                          *)
(***************************************************************************)
\* The readable files with a recognized extension reached through readable
\* directories that are not skipped, as [path, lines] records.
RECURSIVE ReadableSources(_, _)
ReadableSources(entries, dir) ==
    UNION {LET entry == entries[i]
               fullPath == JoinPath(dir, entry.name)
           IN  IF entry.kind = "dir"
               THEN (IF entry.readable /\ entry.name \notin SKIP_DIRS
                     THEN ReadableSources(entry.children, fullPath)
                     ELSE {})
               ELSE IF entry.readable /\ hasExtension(entry.name)
               THEN {[path |-> fullPath, lines |-> entry.lines]}
               ELSE {}
           : i \in 1..Len(entries)}

ScannedSources ==
    IF input.readable THEN ReadableSources(input.children, "") ELSE {}

MapNamed(kind) ==
    CASE kind = "i18n" -> i18nMap
      [] kind = "jsx" -> jsxMap
      [] kind = "string" -> stringMap

\* The match is recorded in its map under its normalized text, at the file
\* and line.
IsIndexed(match, path, lineNumber) ==
    \E i \in 1..Len(MapNamed(match.kind)) :
        /\ MapNamed(match.kind)[i].key = normalizeText(match.text)
        /\ \E j \in 1..Len(MapNamed(match.kind)[i].locations) :
              /\ MapNamed(match.kind)[i].locations[j].file = path
              /\ MapNamed(match.kind)[i].locations[j].line = lineNumber

\* Every string of the file of at least MIN_TEXT_LENGTH characters once
\* normalized is indexed.
FullyIndexed(source) ==
    \A n \in 1..Len(source.lines) :
        \A k \in 1..Len(source.lines[n]) :
            Len(normalizeText(source.lines[n][k].text)) >= MIN_TEXT_LENGTH
                => IsIndexed(source.lines[n][k], source.path, n)

\* Every location recorded is in one of the given files.
OnlyFrom(sources) ==
    \A m \in {i18nMap, jsxMap, stringMap} :
        \A i \in 1..Len(m) :
            \A j \in 1..Len(m[i].locations) :
                \E source \in sources : source.path = m[i].locations[j].file

\* C11: once scan has returned, whatever entries of the tree are unreadable
\* and wherever they come in the traversal, every string of every readable
\* file with a recognized extension outside the skipped and unreadable
\* directories is indexed, and nothing else is.
C11_ReadableFilesIndexed ==
    scanned =>
        /\ \A source \in ScannedSources : FullyIndexed(source)
        /\ OnlyFrom(ScannedSources)

\* The file has a string whose normalized text names a member every plain
\* object inherits.
HasInheritedName(source) ==
    \E n \in 1..Len(source.lines) :
        \E k \in 1..Len(source.lines[n]) :
            normalizeText(source.lines[n][k].text) \in InheritedKeys

\* C11, for the files none of whose strings names an inherited member:
\* those are fully indexed whatever fails around them.
C11_ReadableFilesIndexedOffInherited ==
    scanned =>
        /\ \A source \in ScannedSources :
              ~HasInheritedName(source) => FullyIndexed(source)
        /\ OnlyFrom(ScannedSources)

\* C11: a scan is over in which an unreadable file came before a readable
\* one in the same directory, and the readable one is indexed.
C11_Witness ==
    /\ scanned
    /\ \E i \in 1..Len(input.children) :
          /\ input.children[i].kind = "dir"
          /\ input.children[i].readable
          /\ Len(input.children[i].children) > 1
          /\ ~input.children[i].children[1].readable
    /\ \E source \in ScannedSources :
          source.path = "src/page.jsx" /\ FullyIndexed(source)

(***************************************************************************)
(* TranslationMapper                                                       *)
(*                                                                         *)
(* A file of the locales directory is a record: name, kind ("json" when    *)
(* it can be read and parses to a flat object of strings, "malformed"      *)
(* when JSON.parse throws on it, "unreadable" when readFile throws on it)  *)
(* and entries, the [key, value] members of the parsed object.  A Map is   *)
(* a sequence of <<key, value>> pairs in insertion order.                  *)
(***************************************************************************)
\* s.replace(pattern, replacement) with a string pattern: the first
\* occurrence only.
ReplaceFirst(s, pattern, replacement) ==
    IF Includes(s, pattern)
    THEN LET at == CHOOSE i \in 0..(Len(s) - Len(pattern)) :
                      /\ SubSeq(s, i + 1, i + Len(pattern)) = pattern
                      /\ \A j \in 0..(i - 1) :
                            SubSeq(s, j + 1, j + Len(pattern)) # pattern
         IN  SubSeq(s, 1, at) \o replacement
             \o SubSeq(s, at + Len(pattern) + 1, Len(s))
    ELSE s

\* The characters /\w/ matches.
IsWordChar(c) ==
    \/ \E i \in 1..Len(UpperCaseLetters) : CharAt(UpperCaseLetters, i) = c
    \/ \E i \in 1..Len(LowerCaseLetters) : CharAt(LowerCaseLetters, i) = c
    \/ IsDigit(c)
    \/ c = "_"

\* s.replace(/[^\w\s]/g, '')
RECURSIVE RemoveNonWord(_)
RemoveNonWord(s) ==
    IF Len(s) = 0 THEN ""
    ELSE (IF IsWordChar(CharAt(s, 1)) \/ IsWhitespace(CharAt(s, 1))
          THEN CharAt(s, 1) ELSE "")
         \o RemoveNonWord(SubSeq(s, 2, Len(s)))

\* TranslationMapper.normalize
normalize(text) == Trim(RemoveNonWord(CollapseWhitespace(ToLowerCase(text))))

MapGet(m, key) == m[MapIndex(m, key)][2]

FileIndex(dir, name) ==
    IF \E i \in 1..Len(dir) : dir[i].name = name
    THEN CHOOSE i \in 1..Len(dir) : dir[i].name = name
    ELSE 0

\* const englishText = this.englishLocale[key] || key
englishTextOf(english, key) ==
    IF OwnIndex(english, key) # 0 /\ english[OwnIndex(english, key)].value # ""
    THEN english[OwnIndex(english, key)].value
    ELSE key

EntryOf(english, member) ==
    [englishText |-> englishTextOf(english, member.key),
     translatedText |-> member.value,
     key |-> member.key]

\* The loop body with the first entry of a normalized text kept.
addReverseEntryKeepFirst(reverseMap, english, member) ==
    IF MapIndex(reverseMap, normalize(member.value)) # 0
    THEN reverseMap
    ELSE MapSet(reverseMap, normalize(member.value), EntryOf(english, member))

\* One iteration of the loop over Object.entries(translations).
addReverseEntry(reverseMap, english, member) ==
    MapSet(reverseMap, normalize(member.value), EntryOf(english, member))

RECURSIVE buildReverseMap(_, _, _)
buildReverseMap(members, english, reverseMap) ==
    IF Len(members) = 0 THEN reverseMap
    ELSE buildReverseMap(Tail(members), english,
                         addReverseEntry(reverseMap, english, Head(members)))

RECURSIVE buildEnglishToKey(_, _)
buildEnglishToKey(members, englishToKey) ==
    IF Len(members) = 0 THEN englishToKey
    ELSE buildEnglishToKey(Tail(members),
                           MapSet(englishToKey, normalize(Head(members).value),
                                  Head(members).key))

\* The loop over the files readdir returned, from position at on.  A file
\* that cannot be read or parsed throws, the catch around the whole of
\* load takes over and the files after it are never looked at.
RECURSIVE loadLocales(_, _, _, _, _)
loadLocales(dir, at, english, englishToKey, maps) ==
    IF at > Len(dir) THEN maps
    ELSE IF ~EndsWith(dir[at].name, ".json") \/ dir[at].name = "en.json"
    THEN loadLocales(dir, at + 1, english, englishToKey, maps)
    ELSE IF dir[at].kind # "json"
    THEN maps
    ELSE loadLocales(dir, at + 1, english, englishToKey,
             MapSet(maps, ReplaceFirst(dir[at].name, ".json", ""),
                    [reverseMap |-> buildReverseMap(ObjectEntries(dir[at].entries),
                                                    english, <<>>),
                     englishToKey |-> englishToKey]))

\* Whether readFile and JSON.parse of en.json succeed.
EnglishReadable(dir) ==
    FileIndex(dir, "en.json") # 0 /\ dir[FileIndex(dir, "en.json")].kind = "json"

\* The exact match, then the first entry in insertion order whose key
\* contains the text or is contained in it.
findInReverseMap(reverseMap, normalizedText) ==
    IF MapIndex(reverseMap, normalizedText) # 0
    THEN Some(MapGet(reverseMap, normalizedText))
    ELSE IF \E i \in 1..Len(reverseMap) :
               PartialMatch(reverseMap[i][1], normalizedText)
    THEN Some(reverseMap[CHOOSE i \in 1..Len(reverseMap) :
                 /\ PartialMatch(reverseMap[i][1], normalizedText)
                 /\ \A j \in 1..(i - 1) :
                       ~PartialMatch(reverseMap[j][1], normalizedText)][2])
    ELSE None

RECURSIVE findInAllLocales(_, _)
findInAllLocales(maps, normalizedText) ==
    IF Len(maps) = 0 THEN None
    ELSE IF findInReverseMap(Head(maps)[2].reverseMap, normalizedText) # None
    THEN findInReverseMap(Head(maps)[2].reverseMap, normalizedText)
    ELSE findInAllLocales(Tail(maps), normalizedText)

\* findEnglishOriginal without the hinted locale's turn.
findEnglishOriginalInAllLocales(text, locale, maps) ==
    findInAllLocales(maps, normalize(text))

\* locale is None when the argument is omitted.  The result is None for
\* null.
findEnglishOriginal(text, locale, maps) ==
    LET normalizedText == normalize(text)
        hinted ==
            IF TruthyString(locale) /\ locale[1] # "en"
               /\ MapIndex(maps, locale[1]) # 0
            THEN findInReverseMap(MapGet(maps, locale[1]).reverseMap, normalizedText)
            ELSE None
    IN  IF hinted # None THEN hinted
        ELSE findInAllLocales(maps, normalizedText)

(***************************************************************************)
(* The locales directories the model loads.                                *)
(***************************************************************************)
Member(key, value) == [key |-> key, value |-> value]

File(name, kind, entries) == [name |-> name, kind |-> kind, entries |-> entries]

EnglishFiles ==
    {File("en.json", "json", <<Member("cta", "Get Started"), Member("title", "Title")>>),
     File("en.json", "json", <<Member("cta", "Get Started"), Member("title", "")>>),
     File("en.json", "json", <<Member("cta", "Get Started")>>),
     File("en.json", "malformed", <<>>)}

GermanFiles ==
    {File("de.json", "json", <<Member("cta", "Jetzt loslegen")>>),
     File("de.json", "json", <<Member("cta", "Jetzt loslegen"),
                               Member("hero_cta", "Jetzt loslegen!")>>),
     File("de.json", "json", <<Member("title", "Titel"),
                               Member("cta", "Jetzt  loslegen")>>),
     File("de.json", "malformed", <<>>)}

FrenchFiles ==
    {File("fr.json", "json", <<Member("cta", "Commencer")>>),
     File("fr.json", "unreadable", <<>>)}

OtherFiles == {File("README.md", "malformed", <<>>)}

DirectoryFiles == EnglishFiles \cup GermanFiles \cup FrenchFiles \cup OtherFiles

FileNames == {f.name : f \in DirectoryFiles}

\* Every listing of every subset of the files, one file per name.
Directories ==
    {dir \in SeqsUpTo(DirectoryFiles, Cardinality(FileNames)) :
        \A i, j \in 1..Len(dir) : dir[i].name = dir[j].name => i = j}

\* Rendered texts looked up, and the locale hints they are looked up with.
TranslatedTexts ==
    {"Jetzt loslegen", "Jetzt loslegen!", "Titel", "Commencer", "Unbekannt"}

LocaleHints == {None, Some("de"), Some("fr"), Some("en")}

InitMapper ==
    /\ localesDir \in Directories
    /\ englishLocale = <<>>
    /\ translationMaps = <<>>
    /\ loadState = "idle"
    /\ original = <<>>
    /\ ExceptMapperParked

\* load(): en.json, then every other .json file in readdir order; whatever
\* is thrown is caught and dropped, so the promise always resolves.
Load ==
    /\ loadState = "idle"
    /\ IF EnglishReadable(localesDir)
       THEN LET english == localesDir[FileIndex(localesDir, "en.json")].entries
            IN  /\ englishLocale' = english
                /\ translationMaps' =
                       loadLocales(localesDir, 1, english,
                                   buildEnglishToKey(ObjectEntries(english), <<>>),
                                   translationMaps)
       ELSE UNCHANGED <<englishLocale, translationMaps>>
    /\ loadState' = "resolved"
    /\ UNCHANGED <<localesDir, original, exceptMapperVars>>

\* runLintAudit looks an issue's text up once load has returned.  A lookup
\* changes nothing in the mapper, so one lookup per behaviour shows them all.
FindEnglishOriginal(text, locale) ==
    /\ loadState = "resolved"
    /\ original = <<>>
    /\ original' = <<text, locale, findEnglishOriginal(text, locale, translationMaps)>>
    /\ UNCHANGED <<localesDir, englishLocale, translationMaps, loadState,
                   exceptMapperVars>>

NextMapper ==
    \/ Load
    \/ \E text \in TranslatedTexts, locale \in LocaleHints :
          FindEnglishOriginal(text, locale)

SpecMapper == InitMapper /\ [][NextMapper]_vars


(***************************************************************************)
(* Claims about TranslationMapper                                          *)
(***************************************************************************)
\* The locales whose reverse map has been built.
LoadedLocales == {translationMaps[i][1] : i \in 1..Len(translationMaps)}

\* The parsed members of the locale's file, in Object.entries order.
MembersOf(locale) ==
    ObjectEntries(localesDir[FileIndex(localesDir, locale \o ".json")].entries)

\* The English file has a value for the key.
EnglishHas(key) ==
    OwnIndex(localesDir[FileIndex(localesDir, "en.json")].entries, key) # 0

EnglishValue(key) ==
    LET english == localesDir[FileIndex(localesDir, "en.json")].entries
    IN  english[OwnIndex(english, key)].value

\* A lookup of a text of the hinted locale's file has been made, the
\* locale being loaded.
LookedUpOwnText ==
    /\ original # <<>>
    /\ original[2] # None
    /\ original[2][1] \in LoadedLocales
    /\ \E i \in 1..Len(MembersOf(original[2][1])) :
          MembersOf(original[2][1])[i].value = original[1]

LastWithText(locale, text) ==
    CHOOSE i \in 1..Len(MembersOf(locale)) :
        /\ normalize(MembersOf(locale)[i].value) = normalize(text)
        /\ \A j \in (i + 1)..Len(MembersOf(locale)) :
              normalize(MembersOf(locale)[j].value) # normalize(text)

IsValidLocaleFile(file) ==
    EndsWith(file.name, ".json") /\ file.name # "en.json" /\ file.kind = "json"

\* C10: load never throws, and once it has returned the reverse map of
\* every locale file of the directory that can be read and parsed is built,
\* whatever other files are missing or malformed and wherever they come in
\* the order of reading.
C10_OnlyFailingLocaleAbsent ==
    /\ loadState # "rejected"
    /\ loadState = "resolved" =>
          \A i \in 1..Len(localesDir) :
              IsValidLocaleFile(localesDir[i]) =>
                  ReplaceFirst(localesDir[i].name, ".json", "") \in LoadedLocales

\* C10, as the code has it: load never throws, and once it has returned
\* the reverse maps built are those of the valid locale files read before
\* the first file that cannot be read or parsed, none when that file is
\* en.json.
C10_LocalesBeforeFirstFailureBuilt ==
    /\ loadState # "rejected"
    /\ loadState = "resolved" =>
          \A i \in 1..Len(localesDir) :
              IsValidLocaleFile(localesDir[i]) =>
                  (ReplaceFirst(localesDir[i].name, ".json", "") \in LoadedLocales
                     <=> /\ EnglishReadable(localesDir)
                         /\ \A j \in 1..(i - 1) :
                               (EndsWith(localesDir[j].name, ".json")
                                /\ localesDir[j].name # "en.json")
                                  => localesDir[j].kind = "json")


(***************************************************************************)
(* Auditor.audit and the audit loop of runLintAudit                        *)
(*                                                                         *)
(* runLintAudit from the launch of the browser on: auditor.init(), one     *)
(* auditor.audit(url, locale) per locale, auditor.close(), the report and  *)
(* the exit code, all inside one try whose catch closes the browser and    *)
(* exits.  audit is followed through its awaits: newPage, goto,            *)
(* applyLocaleTransform and detectOverflows; its finally closes the page   *)
(* on whichever of these steps leaves the try block.  A page is known by   *)
(* the position in locales of the locale it was opened for.                *)
(***************************************************************************)
EXIT_CODES ==
    [SUCCESS |-> 0, GENERAL_ERROR |-> 1, LINT_ISSUES_FOUND |-> 2,
     INVALID_ARGUMENTS |-> 3]

\* The cases of applyLocaleTransform's switch that evaluate a script in
\* the page.
TransformedLocales == {"pseudo", "ar", "he", "fa", "ur", "de"}

transformRuns(locale) == ToLowerCase(locale) \in TransformedLocales

\* The switch of applyLocaleTransform on locale.toLowerCase(): the transform
\* it applies to the page.
transformOf(locale) ==
    CASE ToLowerCase(locale) = "pseudo" -> "pseudo"
      [] ToLowerCase(locale) \in {"ar", "he", "fa", "ur"} -> "rtl"
      [] ToLowerCase(locale) = "de" -> "pseudo-0.3"
      [] OTHER -> "none"

\* The object audit returns (timestamp and duration are left out of the
\* comparison: duration is 0).
auditResult(locale, found) ==
    [url |-> "http://localhost:3000?lang=" \o locale,
     locale |-> locale,
     issueCount |-> Len(found),
     issues |-> found,
     duration |-> 0]

hasErrors(rs) ==
    \E i \in 1..Len(rs) :
        \E j \in 1..Len(rs[i].issues) : rs[i].issues[j].severity = "error"

\* The locale lists audited, and what the page looks like once loaded and
\* transformed: nothing overflowing, one warning, one error.
AuditLocaleLists ==
    {<<"en">>, <<"pseudo">>, <<"en", "de">>, <<"AR", "ja">>, <<"ar-EG", "he">>,
     <<"yi">>, <<"fr-CA", "ur">>}

AuditPages ==
    {<<>>,
     <<Element("div", 1, Rendered(25, 0))>>,
     <<Element("button", 1, Rendered(60, 0))>>}

InitAudit ==
    /\ locales \in AuditLocaleLists
    /\ failOnError \in BOOLEAN
    /\ lintPc = "start"
    /\ localeAt = 1
    /\ browser = FALSE
    /\ context = FALSE
    /\ calls = <<>>
    /\ openPages = {}
    /\ thrownBy = ""
    /\ transforms = <<>>
    /\ auditResults = <<>>
    /\ exitCode = None
    /\ ExceptAuditParked

\* await auditor.init(): the browser is launched and the context created,
\* or the launch throws.
AuditorInit(ok) ==
    /\ lintPc = "start"
    /\ IF ok
       THEN /\ browser' = TRUE
            /\ context' = TRUE
            /\ UNCHANGED calls
            /\ lintPc' = IF localeAt > Len(locales) THEN "close" ELSE "audit"
            /\ UNCHANGED thrownBy
       ELSE /\ thrownBy' = "init"
            /\ lintPc' = "catch"
            /\ UNCHANGED <<browser, context, calls>>
    /\ UNCHANGED <<locales, failOnError, transforms, localeAt, openPages, auditResults,
                   exitCode, exceptAuditVars>>

\* audit up to the try block: init() if the browser is not set, newPage().
AuditNewPage ==
    /\ lintPc = "audit"
    /\ browser' = TRUE
    /\ context' = TRUE
    /\ UNCHANGED calls
    /\ openPages' = openPages \cup {localeAt}
    /\ lintPc' = "goto"
    /\ UNCHANGED <<locales, failOnError, transforms, localeAt, thrownBy, auditResults,
                   exitCode, exceptAuditVars>>

\* page.goto without the finally block: a failure leaves the page open.
GotoWithoutFinally(ok) ==
    /\ lintPc = "goto"
    /\ IF ok
       THEN /\ lintPc' = "transform"
            /\ UNCHANGED <<openPages, thrownBy>>
       ELSE /\ thrownBy' = "goto"
            /\ lintPc' = "catch"
            /\ UNCHANGED openPages
    /\ UNCHANGED <<locales, failOnError, transforms, localeAt, browser, context, calls,
                   auditResults,
                   exitCode, exceptAuditVars>>

\* await page.goto(url, ...): the navigation succeeds, or it fails or times
\* out; then the finally block closes the page and audit rejects.
Goto(ok) ==
    /\ lintPc = "goto"
    /\ IF ok
       THEN /\ lintPc' = "transform"
            /\ UNCHANGED <<openPages, thrownBy>>
       ELSE /\ openPages' = openPages \ {localeAt}
            /\ thrownBy' = "goto"
            /\ lintPc' = "catch"
    /\ UNCHANGED <<locales, failOnError, transforms, localeAt, browser, context, calls,
                   auditResults,
                   exitCode, exceptAuditVars>>

\* await this.applyLocaleTransform(page, locale): for the locales that have
\* a transform, page.evaluate succeeds or throws; nothing catches it before
\* audit's finally, which closes the page, and audit rejects.
ApplyLocaleTransform(ok) ==
    /\ lintPc = "transform"
    /\ IF transformRuns(locales[localeAt]) /\ ~ok
       THEN /\ openPages' = openPages \ {localeAt}
            /\ thrownBy' = "transform"
            /\ lintPc' = "catch"
            /\ UNCHANGED transforms
       ELSE /\ lintPc' = "detect"
            /\ transforms' = Append(transforms, transformOf(locales[localeAt]))
            /\ UNCHANGED <<openPages, thrownBy>>
    /\ UNCHANGED <<locales, failOnError, localeAt, browser, context, calls, auditResults,
                   exitCode, exceptAuditVars>>

\* detectOverflows on the page as it is now, the return of audit (its
\* finally closes the page) and results.push(result) in runLintAudit.
DetectAndReturn(pg) ==
    /\ lintPc = "detect"
    /\ auditResults' =
           Append(auditResults,
                  auditResult(locales[localeAt],
                              detectOverflows(pg, locales[localeAt])))
    /\ openPages' = openPages \ {localeAt}
    /\ localeAt' = localeAt + 1
    /\ lintPc' = IF localeAt + 1 > Len(locales) THEN "close" ELSE "audit"
    /\ UNCHANGED <<locales, failOnError, transforms, browser, context, calls, thrownBy, exitCode,
                   exceptAuditVars>>

\* await auditor.close() after the loop.
CloseBrowser ==
    /\ lintPc = "close"
    /\ browser' = FALSE
    /\ context' = FALSE
    /\ UNCHANGED calls
    /\ lintPc' = "report"
    /\ UNCHANGED <<locales, failOnError, transforms, localeAt, openPages, thrownBy,
                   auditResults, exitCode, exceptAuditVars>>

\* The report, then process.exit(LINT_ISSUES_FOUND) when failOnError is
\* set and some issue has severity 'error'; runLintAudit returns otherwise.
Report ==
    /\ lintPc = "report"
    /\ IF failOnError /\ hasErrors(auditResults)
       THEN /\ exitCode' = Some(EXIT_CODES.LINT_ISSUES_FOUND)
            /\ lintPc' = "exited"
       ELSE /\ lintPc' = "returned"
            /\ UNCHANGED exitCode
    /\ UNCHANGED <<locales, failOnError, transforms, localeAt, browser, context, calls, openPages,
                   thrownBy, auditResults, exceptAuditVars>>

\* The catch of runLintAudit: auditor.close(), process.exit(GENERAL_ERROR).
Catch ==
    /\ lintPc = "catch"
    /\ browser' = FALSE
    /\ context' = FALSE
    /\ UNCHANGED calls
    /\ exitCode' = Some(EXIT_CODES.GENERAL_ERROR)
    /\ lintPc' = "exited"
    /\ UNCHANGED <<locales, failOnError, transforms, localeAt, openPages, thrownBy,
                   auditResults, exceptAuditVars>>

NextAudit ==
    \/ \E ok \in BOOLEAN : AuditorInit(ok)
    \/ AuditNewPage
    \/ \E ok \in BOOLEAN : Goto(ok)
    \/ \E ok \in BOOLEAN : ApplyLocaleTransform(ok)
    \/ \E pg \in AuditPages : DetectAndReturn(pg)
    \/ CloseBrowser
    \/ Report
    \/ Catch

SpecAudit == InitAudit /\ [][NextAudit]_vars

(***************************************************************************)
(* Claims about failures during an audit                                   *)
(***************************************************************************)
\* C8: a failure of the locale transformation never fails the audit: it
\* does not leave audit as a rejection (thrownBy is "transform" exactly
\* when it did), the audit going on to detection and returning an
\* AuditResult for the locale instead.
C8_TransformFailureNeverFailsAudit == thrownBy # "transform"

\* The audit of the locale at localeAt has produced no result: the results
\* are those of the locales before it.
NoResultForFailedLocale ==
    /\ Len(auditResults) = localeAt - 1
    /\ \A i \in 1..Len(auditResults) : auditResults[i].locale = locales[i]

\* C9: when the navigation fails for a locale, audit rejects without
\* returning an AuditResult for it and with the page it opened closed (as
\* it is whenever audit is over), the failure reaches the catch of
\* runLintAudit, and the step taken there closes the browser and exits
\* with GENERAL_ERROR.
C9_NavigationFailureIsFatal ==
    /\ [](thrownBy = "goto" =>
            /\ lintPc \in {"catch", "exited"}
            /\ NoResultForFailedLocale
            /\ openPages = {}
            /\ lintPc = "exited" =>
                  (~browser /\ exitCode = Some(EXIT_CODES.GENERAL_ERROR)))
    /\ [](lintPc \notin {"goto", "transform", "detect"} => openPages = {})
    /\ [][lintPc = "catch" =>
            /\ lintPc' = "exited"
            /\ ~browser'
            /\ exitCode' = Some(EXIT_CODES.GENERAL_ERROR)]_vars

\* C9: the navigation failed for the second locale, after a first locale
\* was audited, and runLintAudit has exited.
C9_Witness ==
    /\ thrownBy = "goto"
    /\ lintPc = "exited"
    /\ localeAt = 2
    /\ Len(auditResults) = 1


(***************************************************************************)
(* RTLTransform.isRTL                                                      *)
(***************************************************************************)
RTL_LOCALES == <<"ar", "he", "fa", "ur", "yi", "ps", "sd", "ug">>

\* s.split(separator)[0]: the text before the first separator, all of s
\* when it has none.
RECURSIVE FirstPart(_, _)
FirstPart(s, separator) ==
    IF Len(s) = 0 \/ StartsWith(s, separator) THEN ""
    ELSE CharAt(s, 1) \o FirstPart(SubSeq(s, 2, Len(s)), separator)

\* isRTL without the split: the whole lower-cased locale is looked up.
isRTLWholeTag(locale) == ToLowerCase(locale) \in Range(RTL_LOCALES)

isRTL(locale) == FirstPart(ToLowerCase(locale), "-") \in Range(RTL_LOCALES)

PrimarySubtags ==
    {"ar", "he", "fa", "ur", "yi", "ps", "sd", "ug", "en", "fr", "de", "ja",
     "arz", "a", "x", "AR", "Ar", "HE", "Yi", "UG", "EN", "Fr"}

TagSuffixes == {"", "-EG", "-CA", "-ar", "_EG"}

LocaleTags == {primary \o suffix : primary \in PrimarySubtags, suffix \in TagSuffixes}

InitIsRTL ==
    /\ input \in LocaleTags
    /\ applied = FALSE
    /\ output = <<>>
    /\ ExceptCallParked

IsRTL ==
    /\ ~applied
    /\ applied' = TRUE
    /\ output' = isRTL(input)
    /\ UNCHANGED <<input, exceptCallVars>>

NextIsRTL == IsRTL

SpecIsRTL == InitIsRTL /\ [][NextIsRTL]_vars

\* The lower-cased locale is the tag, or starts with the tag and a hyphen.
HasPrimarySubtag(locale, tag) ==
    \/ ToLowerCase(locale) = tag
    \/ StartsWith(ToLowerCase(locale), tag \o "-")

\* C13: isRTL(locale) is true exactly when the lower-cased text before the
\* first hyphen of locale is one of ar, he, fa, ur, yi, ps, sd, ug; it is
\* true of 'ar', 'AR' and 'ar-EG' and false of 'en' and 'fr-CA'.
C13_IsRTLOnPrimarySubtag ==
    applied =>
        /\ output <=> \E tag \in {"ar", "he", "fa", "ur", "yi", "ps", "sd", "ug"} :
                         HasPrimarySubtag(input, tag)
        /\ input \in {"ar", "AR", "ar-EG"} => output
        /\ input \in {"en", "fr-CA"} => ~output

\* C13: isRTL has been applied to a tag with a region and returned true.
C13_Witness == applied /\ input = "ar-EG" /\ output = TRUE


(***************************************************************************)
(* Claims about the transform an audit applies                             *)
(***************************************************************************)
\* C12: in an audit the RTL transform is applied to the loaded page, before
\* detection, for every locale whose primary subtag (the text before the
\* first hyphen, case-insensitive) is one of ar, he, fa, ur, yi, ps, sd, ug,
\* and for no other locale.
C12_RTLAppliedOnPrimarySubtag ==
    /\ Len(auditResults) <= Len(transforms)
    /\ \A i \in 1..Len(transforms) :
          transforms[i] = "rtl"
             <=> \E tag \in {"ar", "he", "fa", "ur", "yi", "ps", "sd", "ug"} :
                    HasPrimarySubtag(locales[i], tag)

\* C12, as the code has it: the RTL transform is applied, before detection,
\* exactly for the locales that are ar, he, fa or ur once lower-cased.
C12_RTLAppliedOnFourWholeTags ==
    /\ Len(auditResults) <= Len(transforms)
    /\ \A i \in 1..Len(transforms) :
          transforms[i] = "rtl" <=> ToLowerCase(locales[i]) \in {"ar", "he", "fa", "ur"}

\* C12: the page of a locale with an RTL primary subtag and a region has
\* gone through applyLocaleTransform and detection.
C12_Witness ==
    /\ Len(auditResults) >= 1
    /\ locales[1] = "ar-EG"
    /\ Len(transforms) >= 1


(***************************************************************************)
(* IEEE 754 double arithmetic for Math.ceil(text.length * factor)          *)
(*                                                                         *)
(* A double is [significand, exponent]: its value is the significand, an   *)
(* integer of SignificandBits bits written in hexadecimal, times           *)
(* 2^exponent.  Integers too wide for the model checker are sequences of   *)
(* bits, least significant first.                                          *)
(***************************************************************************)
SignificandBits == 53

HexDigits == "0123456789abcdef"

HexValue(c) == (CHOOSE i \in 1..Len(HexDigits) : CharAt(HexDigits, i) = c) - 1

\* The four bits of a value below 16, least significant first.
Nibble(v) == <<v % 2, (v \div 2) % 2, (v \div 4) % 2, (v \div 8) % 2>>

RECURSIVE HexToBits(_)
HexToBits(hex) ==
    IF Len(hex) = 0 THEN <<>>
    ELSE Nibble(HexValue(CharAt(hex, Len(hex))))
         \o HexToBits(SubSeq(hex, 1, Len(hex) - 1))

\* Without the zero bits at the most significant end.
RECURSIVE Normalized(_)
Normalized(bits) ==
    IF Len(bits) > 0 /\ bits[Len(bits)] = 0
    THEN Normalized(SubSeq(bits, 1, Len(bits) - 1))
    ELSE bits

RECURSIVE BitsToNat(_)
BitsToNat(bits) ==
    IF Len(bits) = 0 THEN 0 ELSE Head(bits) + 2 * BitsToNat(Tail(bits))

\* bits * n + carry, exactly.
RECURSIVE MultiplyBits(_, _, _)
MultiplyBits(bits, n, carry) ==
    IF Len(bits) = 0
    THEN (IF carry = 0 THEN <<>>
          ELSE <<carry % 2>> \o MultiplyBits(<<>>, n, carry \div 2))
    ELSE <<(Head(bits) * n + carry) % 2>>
         \o MultiplyBits(Tail(bits), n, (Head(bits) * n + carry) \div 2)

Increment(bits) == MultiplyBits(bits, 1, 1)

\* An exact product [bits, exponent] rounded to the nearest double, ties to
\* the even significand.
RoundToDouble(bits, exponent) ==
    LET dropped == Len(bits) - SignificandBits
        kept == SubSeq(bits, dropped + 1, Len(bits))
        half == bits[dropped] = 1
        sticky == \E i \in 1..(dropped - 1) : bits[i] = 1
    IN  IF dropped <= 0 THEN [bits |-> bits, exponent |-> exponent]
        ELSE [bits |-> IF half /\ (sticky \/ kept[1] = 1)
                       THEN Increment(kept) ELSE kept,
              exponent |-> exponent + dropped]

\* Math.ceil of a positive double below 2^31.
Ceil(double) ==
    LET fraction == 0 - double.exponent
    IN  IF fraction <= 0 THEN BitsToNat(double.bits)
        ELSE IF fraction >= Len(double.bits) THEN 1
        ELSE BitsToNat(SubSeq(double.bits, fraction + 1, Len(double.bits)))
             + (IF \E i \in 1..fraction : double.bits[i] = 1 THEN 1 ELSE 0)

\* Math.ceil(n * factor) for an integer n >= 1 and a positive double factor.
CeilOfProduct(n, factor) ==
    Ceil(RoundToDouble(MultiplyBits(Normalized(HexToBits(factor.significand)), n, 0),
                       factor.exponent))


(***************************************************************************)
(* PseudoLocaleTransform                                                   *)
(*                                                                         *)
(* A text is the sequence of its code points, the way for (const char of   *)
(* text) goes through it; a code point is a one-character string, or       *)
(* Astral for a character outside the basic plane, which takes two UTF-16  *)
(* code units.  The values of CHAR_MAP and PADDING_CHARS are not ASCII:    *)
(* the value for the letter c is written "~c" here and the four padding    *)
(* glyphs "+0" to "+3".                                                    *)
(***************************************************************************)
Astral == "U+1F600"

CodePoints(s) == [i \in 1..Len(s) |-> CharAt(s, i)]

CodeUnits(char) == IF char = Astral THEN 2 ELSE 1

\* text.length
RECURSIVE Utf16Length(_)
Utf16Length(text) ==
    IF Len(text) = 0 THEN 0 ELSE CodeUnits(Head(text)) + Utf16Length(Tail(text))

IsLetter(char) ==
    \/ \E i \in 1..Len(UpperCaseLetters) : CharAt(UpperCaseLetters, i) = char
    \/ \E i \in 1..Len(LowerCaseLetters) : CharAt(LowerCaseLetters, i) = char

\* CHAR_MAP[char] || char
CHAR_MAP(char) == IF IsLetter(char) THEN "~" \o char ELSE char

PADDING_CHARS == <<"+0", "+1", "+2", "+3">>

\* !text || text.trim().length === 0
IsBlank(text) == \A i \in 1..Len(text) : IsWhitespace(text[i])

\* text.includes(part), part being a sequence of code points
IncludesChars(text, part) ==
    \E i \in 0..(Len(text) - Len(part)) : SubSeq(text, i + 1, i + Len(part)) = part

\* /^[\d\s.,!?]+$/.test(text)
IsNumericLike(text) ==
    /\ Len(text) > 0
    /\ \A i \in 1..Len(text) :
          IsDigit(text[i]) \/ IsWhitespace(text[i]) \/ text[i] \in {".", ",", "!", "?"}

\* The second if of pseudoLocalize.
IsSkipped(text) ==
    \/ IncludesChars(text, <<":", "/", "/">>)
    \/ IncludesChars(text, <<"{">>)
    \/ IncludesChars(text, <<"<">>)
    \/ IsNumericLike(text)

\* The substitution loop, the padding loop and the brackets, common to
\* both functions.
Substituted(text) == [i \in 1..Len(text) |-> CHAR_MAP(text[i])]

Padding(paddingLength) ==
    [i \in 1..paddingLength |-> PADDING_CHARS[((i - 1) % Len(PADDING_CHARS)) + 1]]

Expanded(text, factor) ==
    LET paddingLength == CeilOfProduct(Utf16Length(text), factor)
    IN  IF paddingLength > 0
        THEN <<"[">> \o Substituted(text) \o Padding(paddingLength) \o <<"]">>
        ELSE Substituted(text)

\* transform with the padding length taken from the number of characters.
transformByCharacters(text, factor) ==
    IF IsBlank(text) THEN text
    ELSE <<"[">> \o Substituted(text)
         \o Padding(CeilOfProduct(Len(text), factor)) \o <<"]">>

\* PseudoLocaleTransform.transform(text, expansionFactor)
transform(text, factor) ==
    IF IsBlank(text) THEN text ELSE Expanded(text, factor)

\* pseudoLocalize(text) inside applyPlaywright, with its factor.
pseudoLocalize(text, factor) ==
    IF IsBlank(text) THEN text
    ELSE IF IsSkipped(text) THEN text
    ELSE Expanded(text, factor)

(***************************************************************************)
(* The texts and factors the two functions are applied to.  A factor is    *)
(* the double together with the decimal fraction it is written as.         *)
(***************************************************************************)
Factor(numerator, denominator, significand, exponent) ==
    [numerator |-> numerator, denominator |-> denominator,
     significand |-> significand, exponent |-> exponent]

ExpansionFactors ==
    {Factor(35, 100, "16666666666666", -54),     \* 0.35, the default
     Factor(3, 10, "13333333333333", -54),       \* 0.3, the German preset
     Factor(28, 100, "11eb851eb851ec", -54),     \* 0.28
     Factor(1, 2, "10000000000000", -53),        \* 0.5
     Factor(1, 1, "10000000000000", -52)}        \* 1

PseudoTexts ==
    {CodePoints(s) : s \in {"", "   ", "Hello", "https://x.com", "123.45",
                            "{count} items", "<b>Hi</b>", "a", " Hi ", "Save!",
                            "42", "?!", "Zz_9", "a:/b", "1 2",
                            "abcdefghijklmnopqrstuvwxy"}}
    \cup {CodePoints("Hi ") \o <<Astral>>, <<Astral, Astral, Astral>>}

InitPseudo ==
    /\ input \in [text : PseudoTexts, factor : ExpansionFactors]
    /\ applied = FALSE
    /\ output = <<>>
    /\ ExceptCallParked

\* The text goes through the public function and through the one that
\* runs in the page.
PseudoTransform ==
    /\ ~applied
    /\ applied' = TRUE
    /\ output' = [transform |-> transform(input.text, input.factor),
                  pseudoLocalize |-> pseudoLocalize(input.text, input.factor)]
    /\ UNCHANGED <<input, exceptCallVars>>

NextPseudo == PseudoTransform

SpecPseudo == InitPseudo /\ [][NextPseudo]_vars

(***************************************************************************)
(* Claims about the pseudo-locale transform                                *)
(***************************************************************************)
\* The text is blank, looks like a URL, contains a brace or an angle
\* bracket, or consists only of digits, whitespace and . , ! ?
ShouldBeSkipped(text) ==
    \/ \A i \in 1..Len(text) : text[i] \in {" ", "\t", "\n"}
    \/ \E i \in 1..(Len(text) - 2) :
          text[i] = ":" /\ text[i + 1] = "/" /\ text[i + 2] = "/"
    \/ \E i \in 1..Len(text) : text[i] \in {"{", "<"}
    \/ \A i \in 1..Len(text) :
          IsDigit(text[i]) \/ text[i] \in {" ", "\t", "\n", ".", ",", "!", "?"}

\* C14: both the public transform and the in-page pseudoLocalize return
\* their input unchanged when it is blank, looks like a URL, contains '{'
\* or '<', or consists only of digits, whitespace and . , ! ? and the two
\* give the same output for every input and factor.
C14_SkippedUnchangedInBoth ==
    applied =>
        /\ ShouldBeSkipped(input.text) =>
              (output.transform = input.text /\ output.pseudoLocalize = input.text)
        /\ output.transform = output.pseudoLocalize

\* C14, for the in-page function alone: it returns the texts to skip
\* unchanged, and every other text changed.
C14_SkippedUnchangedInPage ==
    applied =>
        (ShouldBeSkipped(input.text) <=> output.pseudoLocalize = input.text)

\* C14: a URL has gone through both functions.
C14_Witness ==
    /\ applied
    /\ input.text = CodePoints("https://x.com")
    /\ output.pseudoLocalize = input.text


\* '[', the characters substituted, count padding glyphs taken cyclically
\* from the padding set, ']'.
Bracketed(text, count) ==
    <<"[">>
    \o [i \in 1..Len(text) |-> CHAR_MAP(text[i])]
    \o [i \in 1..count |-> PADDING_CHARS[((i - 1) % 4) + 1]]
    \o <<"]">>

\* The least integer that is at least n * numerator / denominator.
ExactCeil(n, numerator, denominator) ==
    (n * numerator + denominator - 1) \div denominator

\* C15: for a text that is not skipped and a factor f > 0 the transform
\* returns '[', the text substituted through the table, exactly
\* ceil(length(text) * f) padding glyphs taken cyclically, and ']', length
\* being the number of characters and the product the exact one; for
\* 'Hello' and 0.35 that is 2 padding glyphs.
C15_PaddingIsCeilOfLengthTimesFactor ==
    (applied /\ ~ShouldBeSkipped(input.text)) =>
        /\ output.transform =
              Bracketed(input.text,
                        ExactCeil(Len(input.text), input.factor.numerator,
                                  input.factor.denominator))
        /\ (input.text = CodePoints("Hello") /\ input.factor.numerator = 35)
              => Len(output.transform) = Len(input.text) + 2 + 2

ShippedFactor(factor) ==
    \/ factor.numerator = 35 /\ factor.denominator = 100
    \/ factor.numerator = 3 /\ factor.denominator = 10

\* C15, as the code has it: the number of padding glyphs is Math.ceil of
\* the double product of text.length, the number of UTF-16 code units of
\* the text, by f; for the factors 0.35 and 0.3 the code ships that is the
\* ceiling of the exact product of the number of code units by the factor,
\* and for 'Hello' and 0.35 it is 2.
C15_PaddingIsCeilOfDoubleProductOfCodeUnits ==
    (applied /\ ~ShouldBeSkipped(input.text)) =>
        /\ output.transform =
              Bracketed(input.text,
                        CeilOfProduct(Utf16Length(input.text), input.factor))
        /\ ShippedFactor(input.factor) =>
              output.transform =
                 Bracketed(input.text,
                           ExactCeil(Utf16Length(input.text), input.factor.numerator,
                                     input.factor.denominator))
        /\ (input.text = CodePoints("Hello") /\ input.factor.numerator = 35)
              => Len(output.transform) = Len(input.text) + 2 + 2

\* C15: a text of characters outside the basic plane has been transformed,
\* and so has a text of 25 letters with the factor 0.28.
C15_Witness ==
    /\ applied
    /\ \/ input.text = <<Astral, Astral, Astral>>
       \/ Len(input.text) = 25 /\ input.factor.numerator = 28
    /\ output.transform[1] = "["


(***************************************************************************)
(* PseudoLocaleTransform.applyPlaywright on a page                         *)
(*                                                                         *)
(* A DOM node is a record: type ("text" or "element"), tag (the upper-case *)
(* tagName of an element), text (the code points of a text node), the      *)
(* placeholder, title and aria-label attributes of an element (None when   *)
(* absent) and children.                                                   *)
(***************************************************************************)
TextNode(s) ==
    [type |-> "text", tag |-> "", text |-> CodePoints(s), placeholder |-> None,
     title |-> None, ariaLabel |-> None, children |-> <<>>]

ElementNode(tag, placeholder, title, ariaLabel, children) ==
    [type |-> "element", tag |-> tag, text |-> <<>>, placeholder |-> placeholder,
     title |-> title, ariaLabel |-> ariaLabel, children |-> children]

\* The tags processTextNodes returns on.
PSEUDO_SKIPPED_TAGS == {"script", "style", "noscript", "svg", "textarea", "input"}

\* if (value) on an attribute value or a text: present and not empty.
TruthyText(o) == o # None /\ Len(o[1]) > 0

LocalizedAttribute(o, factor) ==
    IF TruthyText(o) THEN Some(pseudoLocalize(o[1], factor)) ELSE o

RECURSIVE processTextNodes(_, _)
processTextNodes(node, factor) ==
    IF node.type = "text"
    THEN (IF Len(node.text) > 0 /\ ~IsBlank(node.text)
          THEN [node EXCEPT !.text = pseudoLocalize(node.text, factor)]
          ELSE node)
    ELSE IF ToLowerCase(node.tag) \in PSEUDO_SKIPPED_TAGS
    THEN node
    ELSE [node EXCEPT
            !.children = [i \in 1..Len(node.children) |->
                             processTextNodes(node.children[i], factor)],
            \* element instanceof HTMLInputElement || HTMLTextAreaElement
            !.placeholder = IF ToLowerCase(node.tag) \in {"input", "textarea"}
                            THEN LocalizedAttribute(@, factor) ELSE @,
            !.title = LocalizedAttribute(@, factor),
            !.ariaLabel = LocalizedAttribute(@, factor)]

\* The indicator appended to body once the nodes are processed.
PseudoIndicator ==
    ElementNode("DIV", None, None, None, <<TextNode("PSEUDO")>>)

\* The script applyPlaywright evaluates in the page, on document.body.
applyPseudoLocale(documentBody, factor) ==
    [processTextNodes(documentBody, factor) EXCEPT
        !.children = Append(@, PseudoIndicator)]

(***************************************************************************)
(* The pages transformed.                                                  *)
(***************************************************************************)
BodyChildren ==
    {TextNode("Save"),
     TextNode("  "),
     ElementNode("P", None, None, None, <<TextNode("Hello")>>),
     ElementNode("SCRIPT", None, None, None, <<TextNode("var a")>>),
     ElementNode("INPUT", Some(CodePoints("Email")), None, None, <<>>),
     ElementNode("TEXTAREA", Some(CodePoints("Notes")), Some(CodePoints("Your notes")),
                 None, <<TextNode("draft")>>),
     ElementNode("BUTTON", None, Some(CodePoints("Close")),
                 Some(CodePoints("Close dialog")), <<TextNode("X")>>),
     ElementNode("A", None, Some(CodePoints("https://x.com")), None,
                 <<TextNode("Docs")>>),
     ElementNode("DIV", None, None, None,
                 <<ElementNode("SPAN", None, None, None, <<TextNode("Hi")>>),
                   ElementNode("svg", None, None, Some(CodePoints("Logo")),
                               <<TextNode("icon")>>)>>)}

MaxBodyChildren == 2

PageFactors ==
    {Factor(35, 100, "16666666666666", -54), Factor(3, 10, "13333333333333", -54)}

InitPseudoPage ==
    /\ input \in [body : {ElementNode("BODY", None, None, None, children) :
                            children \in SeqsUpTo(BodyChildren, MaxBodyChildren)},
                  factor : PageFactors]
    /\ applied = FALSE
    /\ output = <<>>
    /\ ExceptCallParked

ApplyPlaywright ==
    /\ ~applied
    /\ applied' = TRUE
    /\ output' = applyPseudoLocale(input.body, input.factor)
    /\ UNCHANGED <<input, exceptCallVars>>

NextPseudoPage == ApplyPlaywright

SpecPseudoPage == InitPseudoPage /\ [][NextPseudoPage]_vars

(***************************************************************************)
(* Claims about the transform of a page                                    *)
(***************************************************************************)
IsContainerToSkip(node) ==
    ToLowerCase(node.tag) \in {"script", "style", "noscript", "svg", "textarea", "input"}

\* The attribute value, when there is one, has been pseudo-localized once.
AttributeLocalized(before, after, factor) ==
    IF before # None /\ Len(before[1]) > 0
    THEN after = Some(pseudoLocalize(before[1], factor))
    ELSE after = before

\* after is before with, outside the containers to skip, every non-blank
\* text node pseudo-localized once and the title and aria-label of every
\* element pseudo-localized once; withPlaceholders tells whether the
\* placeholders, those of input and textarea elements included, are
\* pseudo-localized too or left as they were.
RECURSIVE LocalizedOnce(_, _, _, _)
LocalizedOnce(before, after, factor, withPlaceholders) ==
    IF before.type = "text"
    THEN after.type = "text"
         /\ after.text = IF IsBlank(before.text) THEN before.text
                         ELSE pseudoLocalize(before.text, factor)
    ELSE /\ after.type = "element"
         /\ after.tag = before.tag
         /\ IF withPlaceholders
            THEN AttributeLocalized(before.placeholder, after.placeholder, factor)
            ELSE after.placeholder = before.placeholder
         /\ IF IsContainerToSkip(before)
            THEN /\ after.children = before.children
                 /\ after.title = before.title
                 /\ after.ariaLabel = before.ariaLabel
            ELSE /\ AttributeLocalized(before.title, after.title, factor)
                 /\ AttributeLocalized(before.ariaLabel, after.ariaLabel, factor)
                 /\ Len(after.children) >= Len(before.children)
                 /\ \A i \in 1..Len(before.children) :
                       LocalizedOnce(before.children[i], after.children[i],
                                     factor, withPlaceholders)

\* C16: after the transform of a page every non-blank text node under body
\* outside script, style, noscript, svg, textarea and input containers has
\* been pseudo-localized exactly once, and so have the title, aria-label
\* and placeholder values, the placeholder of input and textarea elements
\* included.
C16_TextAndAttributesLocalizedOnce ==
    applied => LocalizedOnce(input.body, output, input.factor, TRUE)

\* C16, as the code has it: the text nodes, titles and aria-labels outside
\* the skipped containers are pseudo-localized once; no placeholder is
\* changed, and neither are the title and aria-label of the skipped
\* containers themselves.
C16_TextTitleAriaLabelLocalizedOnce ==
    applied => LocalizedOnce(input.body, output, input.factor, FALSE)

\* C16: a page with an input that has a placeholder, next to a paragraph,
\* has been transformed.
C16_Witness ==
    /\ applied
    /\ \E i, j \in 1..Len(input.body.children) :
          /\ input.body.children[i].tag = "INPUT"
          /\ input.body.children[j].tag = "P"
          /\ output.children[j].children[1].text # input.body.children[j].children[1].text


(***************************************************************************)
(* generateSelector (inside Auditor.detectOverflows)                       *)
(*                                                                         *)
(* A document is the sequence of the elements under body in document       *)
(* order.  An element is a record: tagName (upper case, as the DOM gives   *)
(* it for HTML elements), depth (1 = child of body; the parent of an       *)
(* element is the nearest preceding element of depth one less), id and     *)
(* className (both "" when the attribute is absent).  className is always  *)
(* a string here: the only elements where it is not are inside <svg>,      *)
(* which the TreeWalker rejects.  An element is named by its position in   *)
(* the document; position 0 names document.body.                           *)
(***************************************************************************)
DomElement(tagName, depth, id, className) ==
    [tagName |-> tagName, depth |-> depth, id |-> id, className |-> className]

\* current.parentElement
parentElement(doc, current) ==
    IF doc[current].depth = 1 THEN 0
    ELSE CHOOSE j \in 1..(current - 1) :
            /\ doc[j].depth = doc[current].depth - 1
            /\ \A k \in (j + 1)..(current - 1) : doc[k].depth # doc[j].depth

\* Array.from(parent.children), as positions in document order.
childrenOf(doc, parent) ==
    {k \in 1..Len(doc) : parentElement(doc, k) = parent}

\* String.prototype.split(/\s+/)
RECURSIVE SplitFrom(_, _, _, _)
SplitFrom(s, i, piece, pieces) ==
    IF i > Len(s) THEN Append(pieces, piece)
    ELSE IF IsWhitespace(CharAt(s, i))
    THEN LET rest == {j \in (i + 1)..Len(s) : ~IsWhitespace(CharAt(s, j))}
             next == IF rest = {} THEN Len(s) + 1
                     ELSE CHOOSE j \in rest : \A k \in rest : j <= k
         IN  SplitFrom(s, next, "", Append(pieces, piece))
    ELSE SplitFrom(s, i + 1, piece \o CharAt(s, i), pieces)

SplitOnWhitespace(s) == SplitFrom(s, 1, "", <<>>)

\* Array.prototype.join
RECURSIVE Join(_, _)
Join(parts, separator) ==
    IF Len(parts) = 0 THEN ""
    ELSE IF Len(parts) = 1 THEN parts[1]
    ELSE parts[1] \o separator \o Join(Tail(parts), separator)

\* Array.prototype.slice(0, n)
SliceTo(seq, n) == SubSeq(seq, 1, IF Len(seq) < n THEN Len(seq) ELSE n)

MAX_SELECTOR_CLASSES == 2

\* The class part of a segment.
classSelector(className) ==
    IF className # ""
    THEN LET classes == SliceTo(SplitOnWhitespace(Trim(className)), MAX_SELECTOR_CLASSES)
         IN  IF Len(classes) > 0 /\ classes[1] # ""
             THEN "." \o Join(classes, ".") ELSE ""
    ELSE ""

\* siblings: the children of the parent with the same tagName.
sameTagSiblings(doc, current) ==
    {c \in childrenOf(doc, parentElement(doc, current)) :
        doc[c].tagName = doc[current].tagName}

\* The position among all the children of the parent, the DOM index.
childIndex(doc, current) ==
    Cardinality({c \in childrenOf(doc, parentElement(doc, current)) : c <= current})

\* siblings.indexOf(current) + 1
siblingIndex(doc, current) ==
    Cardinality({c \in sameTagSiblings(doc, current) : c <= current})

nthChildSelector(doc, current, index) ==
    IF Cardinality(sameTagSiblings(doc, current)) > 1
    THEN ":nth-child(" \o ToString(index) \o ")" ELSE ""

\* One turn of the while loop: the segment of current.
segmentOf(doc, current) ==
    ToLowerCase(doc[current].tagName)
    \o classSelector(doc[current].className)
    \o nthChildSelector(doc, current, siblingIndex(doc, current))

\* The while loop: from current up to, and without, document.body.
RECURSIVE buildPath(_, _, _)
buildPath(doc, current, path) ==
    IF current = 0 THEN path
    ELSE buildPath(doc, parentElement(doc, current),
                   <<segmentOf(doc, current)>> \o path)

generateSelector(doc, el) ==
    IF doc[el].id # "" THEN "#" \o doc[el].id
    ELSE Join(buildPath(doc, el, <<>>), " > ")

(***************************************************************************)
(* The documents whose elements get a selector.                            *)
(***************************************************************************)
DomElements ==
    {DomElement("UL", 1, "", "menu"),
     DomElement("LI", 1, "", ""),
     DomElement("DIV", 1, "foo", "card"),
     DomElement("LI", 2, "", ""),
     DomElement("LI", 2, "", "item  active selected"),
     DomElement("P", 2, "", " "),
     DomElement("SPAN", 2, "foo", "")}

MaxDomElements == 4

\* Document order: the first element is a child of body and an element is
\* at most one level below the element before it.
WellFormed(doc) ==
    /\ Len(doc) > 0 => doc[1].depth = 1
    /\ \A k \in 2..Len(doc) : doc[k].depth <= doc[k - 1].depth + 1

Documents == {doc \in SeqsUpTo(DomElements, MaxDomElements) : WellFormed(doc)}

InitSelector ==
    /\ input \in Documents
    /\ applied = FALSE
    /\ output = <<>>
    /\ ExceptCallParked

\* The selector of every element of the document.
GenerateSelector ==
    /\ ~applied
    /\ applied' = TRUE
    /\ output' = [el \in 1..Len(input) |-> generateSelector(input, el)]
    /\ UNCHANGED <<input, exceptCallVars>>

NextSelector == GenerateSelector

SpecSelector == InitSelector /\ [][NextSelector]_vars

(***************************************************************************)
(* Claims about generateSelector                                           *)
(***************************************************************************)
\* The class names of an element: the maximal runs of characters of its
\* class attribute that are not whitespace.
RECURSIVE ClassNames(_)
ClassNames(className) ==
    LET rest == TrimStart(className)
        ends == {n \in 1..Len(rest) :
                    n = Len(rest) \/ IsWhitespace(CharAt(rest, n + 1))}
        n == CHOOSE m \in ends : \A k \in ends : m <= k
    IN  IF rest = "" THEN <<>>
        ELSE <<SubSeq(rest, 1, n)>> \o ClassNames(SubSeq(rest, n + 1, Len(rest)))

\* j is el or an ancestor of el below body.
IsSelfOrAncestor(doc, j, el) ==
    \/ j = el
    \/ /\ j < el
       /\ doc[j].depth < doc[el].depth
       /\ \A k \in (j + 1)..el : doc[k].depth > doc[j].depth

\* The elements with the same parent and the same tag as el, el included.
SameTagSiblings(doc, el) ==
    {k \in 1..Len(doc) :
        /\ doc[k].depth = doc[el].depth
        /\ doc[k].tagName = doc[el].tagName
        /\ \A m \in 1..Len(doc) :
              doc[m].depth < doc[el].depth
                 => (IsSelfOrAncestor(doc, m, k) <=> IsSelfOrAncestor(doc, m, el))}

ExpectedSegment(doc, el) ==
    LET names == ClassNames(doc[el].className)
        kept == [n \in 1..(IF Len(names) > 2 THEN 2 ELSE Len(names)) |-> "." \o names[n]]
        same == SameTagSiblings(doc, el)
    IN  ToLowerCase(doc[el].tagName)
        \o Join(kept, "")
        \o (IF Cardinality(same) > 1
            THEN ":nth-child(" \o ToString(Cardinality({k \in same : k <= el})) \o ")"
            ELSE "")

ExpectedSelector(doc, el) ==
    IF doc[el].id # "" THEN "#" \o doc[el].id
    ELSE Join([d \in 1..doc[el].depth |->
                 ExpectedSegment(doc, CHOOSE j \in 1..el :
                                        IsSelfOrAncestor(doc, j, el) /\ doc[j].depth = d)],
              " > ")

\* C17: generateSelector returns '#id' for an element with an id, at any
\* depth; otherwise the ' > '-joined segments from the topmost ancestor
\* below body down to the element, each the lower-cased tag, then at most
\* the first two classes, then ':nth-child(i)' only when the parent has
\* more than one child of that tag, i being the 1-based position among
\* those same-tag siblings.
C17_SelectorIsIdOrPath ==
    applied => \A el \in 1..Len(input) : output[el] = ExpectedSelector(input, el)

\* C17: the three <li> children of a <ul> got their selectors, the second
\* one a selector ending in ':nth-child(2)'.
C17_Witness ==
    /\ applied
    /\ Len(input) = 4
    /\ input[1].tagName = "UL"
    /\ \A k \in 2..4 : input[k].tagName = "LI" /\ input[k].depth = 2
    /\ \E k \in 2..4 : Len(ClassNames(input[k].className)) > 2
    /\ StartsWith(output[3], "ul.menu > li")
    /\ EndsWith(output[3], ":nth-child(2)")

\* Two elements of the document with the same id.
HasDuplicateIds(doc) ==
    \E i, j \in 1..Len(doc) : i # j /\ doc[i].id # "" /\ doc[i].id = doc[j].id

\* C18: two distinct elements under body never receive the same selector
\* string from generateSelector, in any page.
C18_SelectorsAreUnique ==
    applied => \A i, j \in 1..Len(input) : i # j => output[i] # output[j]

\* C18, in the documents where no id is used twice: two distinct elements
\* never receive the same selector.
C18_SelectorsAreUniqueWhenIdsAre ==
    (applied /\ ~HasDuplicateIds(input))
        => \A i, j \in 1..Len(input) : i # j => output[i] # output[j]

\* C18: the selectors of a document of four elements without ids, two of
\* them same-tag siblings, have been generated.
C18_Witness ==
    /\ applied
    /\ Len(input) = 4
    /\ \A el \in 1..4 : input[el].id = ""
    /\ \E i, j \in 1..4 : i # j /\ j \in SameTagSiblings(input, i)


(***************************************************************************)
(* The textContent of an issue (inside Auditor.detectOverflows)            *)
(***************************************************************************)
TEXT_CONTENT_LIMIT == 50

\* String.prototype.slice(0, n)
SliceString(s, n) == SubSeq(s, 1, IF Len(s) < n THEN Len(s) ELSE n)

\* The text as the reporter hook cuts it: a marker after a cut text.
textContentWithMarker(text) ==
    SliceString(Trim(text), TEXT_CONTENT_LIMIT)
    \o (IF Len(Trim(text)) > TEXT_CONTENT_LIMIT THEN "..." ELSE "")

\* htmlEl.textContent?.trim().slice(0, 50) || ''
textContentOf(text) ==
    LET sliced == SliceString(Trim(text), TEXT_CONTENT_LIMIT)
    IN  IF sliced = "" THEN "" ELSE sliced

(***************************************************************************)
(* The element texts: up to MaxTextLength characters with a space at every *)
(* tenth place, between leading and trailing whitespace.                   *)
(***************************************************************************)
MaxTextLength == 53

RECURSIVE Fill(_)
Fill(n) ==
    IF n = 0 THEN ""
    ELSE Fill(n - 1) \o (IF n % 10 = 0 THEN " " ELSE CharAt("abcdefghi", n % 10))

Margins == {"", " ", "\n\t "}

ElementTexts ==
    {lead \o Fill(n) \o trail : n \in 0..MaxTextLength, lead \in Margins, trail \in Margins}

InitTextContent ==
    /\ input \in ElementTexts
    /\ applied = FALSE
    /\ output = <<>>
    /\ ExceptCallParked

TextContent ==
    /\ ~applied
    /\ applied' = TRUE
    /\ output' = textContentOf(input)
    /\ UNCHANGED <<input, exceptCallVars>>

NextTextContent == TextContent

SpecTextContent == InitTextContent /\ [][NextTextContent]_vars

(***************************************************************************)
(* Claims about the textContent of an issue                                *)
(***************************************************************************)
\* The text without the whitespace around it.
Trimmed(text) ==
    LET kept == {i \in 1..Len(text) : ~IsWhitespace(CharAt(text, i))}
    IN  IF kept = {} THEN ""
        ELSE SubSeq(text, CHOOSE i \in kept : \A k \in kept : i <= k,
                          CHOOSE i \in kept : \A k \in kept : i >= k)

\* C19: the textContent of an issue is the element's text, trimmed and cut
\* to its first 50 characters, with an ellipsis marker appended when, and
\* only when, the trimmed text was longer than 50 characters.
C19_TruncatedWithEllipsis ==
    applied =>
        IF Len(Trimmed(input)) > 50
        THEN Len(output) > 50 /\ SubSeq(output, 1, 50) = SubSeq(Trimmed(input), 1, 50)
        ELSE output = Trimmed(input)

\* C19, as the code has it: the textContent of an issue is the element's
\* text, trimmed and cut to its first 50 characters; nothing is appended,
\* whether the text was cut or not.
C19_TruncatedWithoutMarker ==
    applied =>
        IF Len(Trimmed(input)) > 50
        THEN output = SubSeq(Trimmed(input), 1, 50)
        ELSE output = Trimmed(input)

\* C19: a text longer than 50 characters once trimmed has been cut.
C19_Witness ==
    /\ applied
    /\ Len(Trimmed(input)) > 50
    /\ Len(input) > Len(Trimmed(input))
    /\ Len(output) = 50


(***************************************************************************)
(* Claims about the exit code of the lint command                          *)
(***************************************************************************)
\* runLintAudit got to its end without an exception.
AuditCompleted == lintPc \in {"exited", "returned"} /\ thrownBy = ""

\* The audit found issues, of any severity.
IssuesFound ==
    \E i \in 1..Len(auditResults) : Len(auditResults[i].issues) > 0

\* The audit found an issue of severity 'error'.
ErrorsFound ==
    \E i \in 1..Len(auditResults) :
        \E j \in 1..Len(auditResults[i].issues) :
            auditResults[i].issues[j].severity = "error"

\* C20: with --fail-on-error, when the audit finds issues the process exits
\* with code 1; without the flag, or when no issues are found, it does not
\* exit with an error code.
C20_ExitsWithOneWhenIssuesFound ==
    AuditCompleted =>
        IF failOnError /\ IssuesFound THEN exitCode = Some(1) ELSE exitCode = None

\* C20, as the code has it: with --fail-on-error, when the audit finds an
\* issue of severity 'error' the process exits with code 2; without the
\* flag, or when no issue of that severity is found, it does not exit with
\* an error code.
C20_ExitsWithTwoWhenErrorsFound ==
    AuditCompleted =>
        IF failOnError /\ ErrorsFound THEN exitCode = Some(2) ELSE exitCode = None

\* C20: an audit with --fail-on-error that found an error has exited.
C20_Witness ==
    AuditCompleted /\ failOnError /\ ErrorsFound /\ lintPc = "exited"

\* C20: an audit with --fail-on-error that found warnings only has
\* returned.
C20_WitnessWarningsOnly ==
    AuditCompleted /\ failOnError /\ IssuesFound /\ ~ErrorsFound /\ lintPc = "returned"


(***************************************************************************)
(* useLingoGuardian (packages/reporter): the detection effect              *)
(*                                                                         *)
(* One component uses the hook.  A run of the detection effect is named by *)
(* its number; effect is the run that has started and is not cleaned up.   *)
(* The callbacks a run creates (its timers, its ResizeObserver callback    *)
(* and the animation frames that callback requests) carry the number of    *)
(* the run whose closure they are.  overflowed holds the elements that     *)
(* pass every test of checkOverflows at this moment.                       *)
(***************************************************************************)
HookElements == {"h1", "p"}

scanIntervals == {500, 1000, 2000, 3000}

MaxEffectRuns == 2
MaxFrames == 2

\* The elements of a set in document order.
RECURSIVE InDocumentOrder(_)
InDocumentOrder(els) ==
    IF els = {} THEN <<>>
    ELSE LET first == IF "h1" \in els THEN "h1" ELSE CHOOSE el \in els : TRUE
         IN  <<first>> \o InDocumentOrder(els \ {first})

\* highlightIssue without the test on checkedElementsRef.
highlightedWithoutTest(checked, found) == found

\* The elements for which highlightIssue goes past
\* if (checkedElementsRef.current.has(el)) return.
highlighted(checked, found) == found \ checked

\* checkOverflows of the closure of run: highlightIssue for every element
\* that overflows; the issue is styled, logged and broadcast, and
\* config.onIssue is never read.
checkOverflows(run) ==
    LET targets == InDocumentOrder(highlighted(checkedElements, overflowed))
    IN  /\ checkedElements' = checkedElements \cup overflowed
        /\ highlights' = highlights \o
              [i \in 1..Len(targets) |->
                  [target |-> targets[i], type |-> "Horizontal Overflow",
                   run |-> run, during |-> effect]]
        /\ UNCHANGED onIssueCalls

\* React commits a render: the cleanup of the active run when the effect's
\* dependencies changed or the component unmounts, then the effect body
\* when the component stays mounted with changed dependencies.
Commit(nowMounted, nowEnabled, rerun) ==
    LET starts == nowMounted /\ rerun /\ nowEnabled
        cleans == (rerun \/ ~nowMounted) /\ effect # 0
    IN  /\ starts => effectRuns < MaxEffectRuns
        /\ mounted' = nowMounted
        /\ enable' = nowEnabled
        /\ effectRuns' = IF starts THEN effectRuns + 1 ELSE effectRuns
        /\ effect' = IF starts THEN effectRuns + 1
                     ELSE IF cleans THEN 0 ELSE effect
        /\ checkedElements' = IF starts \/ cleans THEN {} ELSE checkedElements
        /\ observer' = IF starts THEN effectRuns + 1
                       ELSE IF cleans THEN 0 ELSE observer
        /\ timeouts' = IF starts THEN {<<effectRuns + 1, delay>> : delay \in scanIntervals}
                       ELSE IF cleans THEN {} ELSE timeouts
        /\ UNCHANGED <<frames, overflowed, highlights, onIssueCalls, exceptHookVars>>

InitHook ==
    /\ enable \in BOOLEAN
    /\ mounted = FALSE
    /\ effect = 0
    /\ effectRuns = 0
    /\ checkedElements = {}
    /\ observer = 0
    /\ timeouts = {}
    /\ frames = <<>>
    /\ overflowed \in SUBSET HookElements
    /\ highlights = <<>>
    /\ onIssueCalls = <<>>
    /\ ExceptHookParked

\* The component mounts: both effects run for the first time.
Mount ==
    /\ ~mounted
    /\ effectRuns = 0
    /\ Commit(TRUE, enable, TRUE)

\* A render with another enable, or with another showGlow or highlightColor
\* (highlightIssue is then a new function): the effect's dependencies
\* changed.
Rerender(nowEnabled) ==
    /\ mounted
    /\ Commit(TRUE, nowEnabled, TRUE)

Unmount ==
    /\ mounted
    /\ Commit(FALSE, enable, FALSE)

\* The ResizeObserver callback: requestAnimationFrame(checkOverflows).
ResizeObserved ==
    /\ observer # 0
    /\ Len(frames) < MaxFrames
    /\ frames' = Append(frames, observer)
    /\ UNCHANGED <<enable, mounted, effect, effectRuns, checkedElements, observer,
                   timeouts, overflowed, highlights, onIssueCalls, exceptHookVars>>

\* An animation frame: the callbacks requested run, oldest first.
FrameFires ==
    /\ frames # <<>>
    /\ checkOverflows(Head(frames))
    /\ frames' = Tail(frames)
    /\ UNCHANGED <<enable, mounted, effect, effectRuns, observer, timeouts,
                   overflowed, exceptHookVars>>

\* One of the scan timers fires.
TimerFires(timer) ==
    /\ timer \in timeouts
    /\ checkOverflows(timer[1])
    /\ timeouts' = timeouts \ {timer}
    /\ UNCHANGED <<enable, mounted, effect, effectRuns, observer, frames,
                   overflowed, exceptHookVars>>

\* Content loads or the layout changes: other elements overflow.
LayoutChanges(now) ==
    /\ mounted
    /\ now # overflowed
    /\ overflowed' = now
    /\ UNCHANGED <<enable, mounted, effect, effectRuns, checkedElements, observer,
                   timeouts, frames, highlights, onIssueCalls, exceptHookVars>>

NextHook ==
    \/ Mount
    \/ \E nowEnabled \in BOOLEAN : Rerender(nowEnabled)
    \/ Unmount
    \/ ResizeObserved
    \/ FrameFires
    \/ \E timer \in timeouts : TimerFires(timer)
    \/ \E now \in SUBSET HookElements : LayoutChanges(now)

SpecHook == InitHook /\ [][NextHook]_vars


(***************************************************************************)
(* Claims about the useLingoGuardian hook                                  *)
(***************************************************************************)
\* No scan is pending: no timer and no animation frame.
NoScanPending == timeouts = {} /\ frames = <<>>

\* C21: when the hook, enabled and given an onIssue callback, detects an
\* overflow issue on an element, onIssue is eventually invoked with that
\* issue: once no scan is pending every issue detected has been handed to
\* onIssue.
C21_OnIssueInvokedWithEveryIssue ==
    NoScanPending =>
        \A i \in 1..Len(highlights) :
            \E j \in 1..Len(onIssueCalls) :
                onIssueCalls[j].target = highlights[i].target

\* C21, as the code has it: onIssue is never invoked.
C21_OnIssueNeverInvoked == onIssueCalls = <<>>

\* C21: the hook has detected an issue and every scan has run.
C21_Witness ==
    /\ NoScanPending
    /\ enable /\ effect = 1
    /\ Len(highlights) > 0

\* The highlights of an element while a run of the effect was active.
HighlightsDuring(run, el) ==
    {i \in 1..Len(highlights) :
        highlights[i].during = run /\ highlights[i].target = el}

\* C26: while one run of the detection effect is active, each overflowing
\* element is highlighted and broadcast at most once, however many scans
\* run and in whatever order.
C26_HighlightedOncePerSession ==
    \A run \in 1..effectRuns : \A el \in HookElements :
        Cardinality(HighlightsDuring(run, el)) <= 1

\* C26: both elements were highlighted during the first run, one of them
\* still overflows, and at least two of the run's timers have fired.
C26_Witness ==
    /\ effect = 1
    /\ Cardinality(timeouts) <= 2
    /\ \E el \in overflowed : Cardinality(HighlightsDuring(1, el)) = 1
    /\ Len(highlights) = 2

\* C28: once a run of the detection effect is cleaned up, that run
\* highlights and broadcasts no further issue: every issue was highlighted
\* by the run active at the time.
C28_NoHighlightAfterCleanup ==
    \A i \in 1..Len(highlights) : highlights[i].run = highlights[i].during

\* C28, as the code has it: the cleanup leaves no timer and no observer of
\* the run behind; the animation frames it requested stay.
C28_TimersAndObserverStopAtCleanup ==
    /\ \A timer \in timeouts : timer[1] = effect
    /\ observer = effect

\* C28: a run was cleaned up while an animation frame it requested was
\* pending.
C28_Witness ==
    /\ effect = 0
    /\ effectRuns > 0
    /\ frames # <<>>
    /\ overflowed # {}


(***************************************************************************)
(* SourceFinder.findInMap on one map                                       *)
(*                                                                         *)
(* The map is what addToMap leaves after the texts of a scan, the text at  *)
(* position n of the scan being found on line n of a.tsx.                  *)
(***************************************************************************)
RECURSIVE addAllToMap(_, _)
addAllToMap(texts, n) ==
    IF n = 0 THEN <<>>
    ELSE addToMap(addAllToMap(texts, n - 1), texts[n], "a.tsx", n)

\* Texts found by one pattern during the scan, and the texts looked up.
ScannedTexts == {"Save 100 now", "100", "Save", "save", "Get Started", "7"}
QueryTexts == {"10", "Save", "100", "Start", "Sign in", "constructor", "Save 100"}

MaxScannedTexts == 3

InitFindInMap ==
    /\ input \in [map : {addAllToMap(texts, Len(texts)) :
                           texts \in SeqsUpTo(ScannedTexts, MaxScannedTexts)},
                  text : {normalizeText(q) : q \in QueryTexts}]
    /\ applied = FALSE
    /\ output = <<>>
    /\ ExceptCallParked

FindInMap ==
    /\ ~applied
    /\ applied' = TRUE
    /\ output' = findInMap(input.text, input.map, "jsx")
    /\ UNCHANGED <<input, exceptCallVars>>

NextFindInMap == FindInMap

SpecFindInMap == InitFindInMap /\ [][NextFindInMap]_vars

(***************************************************************************)
(* Claims about SourceFinder.findInMap                                     *)
(***************************************************************************)
\* The keys of the map, in insertion order, that the query matches by
\* substring in either direction.
SubstringMatches(map, text) ==
    {i \in 1..Len(map) : Includes(map[i].key, text) \/ Includes(text, map[i].key)}

FirstRecorded(entry) ==
    [file |-> Some(entry.locations[1].file), line |-> Some(entry.locations[1].line),
     priority |-> "jsx"]

\* The result the rule gives when the keys are gone through in the given
\* order: the key equal to the query, else the first key matching by
\* substring, else null.
ExactThenFirst(ordered, text) ==
    IF \E i \in 1..Len(ordered) : ordered[i].key = text
    THEN FirstRecorded(ordered[CHOOSE i \in 1..Len(ordered) : ordered[i].key = text])
    ELSE IF SubstringMatches(ordered, text) # {}
    THEN FirstRecorded(ordered[CHOOSE i \in SubstringMatches(ordered, text) :
                                  \A j \in SubstringMatches(ordered, text) : i <= j])
    ELSE NullLocation

\* C22: within one map findInMap returns the first-recorded location of the
\* key equal to the normalized query when there is one, even if a key
\* inserted earlier matches by substring; otherwise the first-recorded
\* location of the first key, in insertion order, that contains the query
\* or is contained in it; otherwise null.
C22_ExactThenFirstInserted ==
    applied => output = ExactThenFirst(input.map, input.text)

\* C22, as the code has it: the same rule with the keys gone through in
\* the order of Object.entries (the keys that are array indices first, in
\* numeric order, then the others in insertion order), for a query that is
\* not the name of a function every plain object inherits.
C22_ExactThenFirstEnumerated ==
    (applied /\ input.text \notin InheritedFunctionKeys)
        => output = ExactThenFirst(ObjectEntries(input.map), input.text)

\* C22: an exact key inserted after a key that matches by substring has
\* been found.
C22_Witness ==
    /\ applied
    /\ Len(input.map) >= 2
    /\ input.map[2].key = input.text
    /\ 1 \in SubstringMatches(input.map, input.text)
    /\ output.line = Some(2)


(***************************************************************************)
(* TranslationMapper.findEnglishOriginal on the maps a load leaves         *)
(***************************************************************************)
\* this.translationMaps once load() has returned for the directory.
translationMapsAfterLoad(dir) ==
    IF EnglishReadable(dir)
    THEN LET english == dir[FileIndex(dir, "en.json")].entries
         IN  loadLocales(dir, 1, english,
                         buildEnglishToKey(ObjectEntries(english), <<>>), <<>>)
    ELSE <<>>

HintedLocaleFiles ==
    {File("en.json", "json", <<Member("login", "Login"), Member("title", "Email login"),
                               Member("cta", "Start")>>),
     File("en.json", "unreadable", <<>>),
     File("de.json", "json", <<Member("title", "E-Mail Login"), Member("cta", "Starten")>>),
     File("de.json", "json", <<Member("cta", "Starten")>>),
     File("de.json", "json", <<Member("login", "Login")>>),
     File("fr.json", "json", <<Member("login", "Login")>>),
     File("fr.json", "json", <<Member("title", "Login requis"), Member("login", "Login")>>)}

MaxLocaleFiles == 3

HintedDirectories ==
    {dir \in SeqsUpTo(HintedLocaleFiles, MaxLocaleFiles) :
        \A i, j \in 1..Len(dir) : dir[i].name = dir[j].name => i = j}

HintedTexts == {"Login", "Login requis!", "Starten", "Willkommen", ""}

HintedLocales == {None, Some(""), Some("en"), Some("de"), Some("fr"), Some("es")}

InitFindOriginal ==
    /\ input \in [maps : {translationMapsAfterLoad(dir) : dir \in HintedDirectories},
                  text : HintedTexts,
                  locale : HintedLocales]
    /\ applied = FALSE
    /\ output = <<>>
    /\ ExceptCallParked

FindOriginal ==
    /\ ~applied
    /\ applied' = TRUE
    /\ output' = findEnglishOriginal(input.text, input.locale, input.maps)
    /\ UNCHANGED <<input, exceptCallVars>>

NextFindOriginal == FindOriginal

SpecFindOriginal == InitFindOriginal /\ [][NextFindOriginal]_vars

(***************************************************************************)
(* Claims about TranslationMapper.findEnglishOriginal                      *)
(***************************************************************************)
\* The entries the two steps allow from one reverse map: the entry of the
\* key equal to the normalized text when there is one, else the entries of
\* the keys that contain it or are contained in it.
TwoStepMatches(reverseMap, n) ==
    IF \E i \in 1..Len(reverseMap) : reverseMap[i][1] = n
    THEN {reverseMap[i][2] : i \in {j \in 1..Len(reverseMap) : reverseMap[j][1] = n}}
    ELSE {reverseMap[i][2] :
            i \in {j \in 1..Len(reverseMap) :
                     Includes(reverseMap[j][1], n) \/ Includes(n, reverseMap[j][1])}}

\* The reverse map of the hinted locale, empty when no hint is given, the
\* hint is 'en' or the locale is not loaded.
HintedReverseMap ==
    IF input.locale # None /\ input.locale # Some("") /\ input.locale # Some("en")
       /\ \E i \in 1..Len(input.maps) : input.maps[i][1] = input.locale[1]
    THEN input.maps[CHOOSE i \in 1..Len(input.maps) :
                       input.maps[i][1] = input.locale[1]][2].reverseMap
    ELSE <<>>

\* C23: with a hint that is not 'en', findEnglishOriginal returns a match
\* of the hinted locale's reverse map (exact on the normalized text first,
\* then by substring in either direction) in preference to any match of
\* another locale, even an exact one; only when the hinted map has no match
\* does it return a match found by the same two steps in a loaded locale;
\* it returns null when no map matches, in particular when nothing was
\* loaded.
C23_HintedLocaleFirst ==
    applied =>
        LET n == normalize(input.text)
            hinted == TwoStepMatches(HintedReverseMap, n)
            any == UNION {TwoStepMatches(input.maps[i][2].reverseMap, n) :
                            i \in 1..Len(input.maps)}
        IN  IF hinted # {} THEN output # None /\ output[1] \in hinted
            ELSE IF any # {} THEN output # None /\ output[1] \in any
            ELSE output = None

\* C23: a text that matches a key of the hinted locale by substring only,
\* and a key of a locale loaded before it exactly, has been looked up.
C23_Witness ==
    /\ applied
    /\ input.locale = Some("de")
    /\ Len(input.maps) = 2
    /\ input.maps[1][1] = "fr"
    /\ \E i \in 1..Len(input.maps[1][2].reverseMap) :
          input.maps[1][2].reverseMap[i][1] = normalize(input.text)
    /\ HintedReverseMap # <<>>
    /\ \A i \in 1..Len(HintedReverseMap) : HintedReverseMap[i][1] # normalize(input.text)
    /\ output # None
    /\ output[1].key = "title"

\* C23: a lookup with nothing loaded has returned null.
C23_WitnessNothingLoaded ==
    applied /\ input.maps = <<>> /\ input.locale = Some("de") /\ output = None


(***************************************************************************)
(* Detection on pages with excluded tags and nested elements               *)
(***************************************************************************)
NestedTags == {"div", "svg", "g", "script"}

MaxNestedElems == 3

NestedElements ==
    {Element(tag, depth, g) :
        tag \in NestedTags, depth \in 1..MaxNestedElems,
        g \in {Rendered(60, 0), Rendered(0, 0)}}

InitNested ==
    /\ page \in {pg \in SeqsUpTo(NestedElements, MaxNestedElems) : WellFormed(pg)}
    /\ detected = FALSE
    /\ issues = <<>>
    /\ ExceptDetectParked

SpecNested == InitNested /\ [][NextDetect]_vars

(***************************************************************************)
(* Claims about the exclusion set                                          *)
(***************************************************************************)
\* The parent of element i: 0 for body.
ParentOf(pg, i) ==
    IF pg[i].depth = 1 THEN 0
    ELSE CHOOSE j \in 1..(i - 1) :
            /\ pg[j].depth = pg[i].depth - 1
            /\ \A k \in (j + 1)..(i - 1) : pg[k].depth >= pg[i].depth

\* Element i or one of its ancestors below body has an excluded tag.
RECURSIVE InExcludedSubtree(_, _)
InExcludedSubtree(pg, i) ==
    IF i = 0 THEN FALSE
    ELSE pg[i].tag \in {"script", "style", "noscript", "svg", "path"}
         \/ InExcludedSubtree(pg, ParentOf(pg, i))

\* C24: no issue is ever emitted for an element whose tag is in the
\* exclusion set or that has an ancestor below body with an excluded tag,
\* whatever its geometry.
C24_NoIssueInExcludedSubtree ==
    detected =>
        \A n \in 1..Len(issues) : ~InExcludedSubtree(page, issues[n].node)

\* C24: detection has run on a page where an overflowing <g> lies inside an
\* <svg> and an overflowing <div> comes after it; the <div> got the only
\* issue.
C24_Witness ==
    /\ detected
    /\ Len(page) = 3
    /\ page[1].tag = "svg" /\ page[1].depth = 1
    /\ page[2].tag = "g" /\ page[2].depth = 2 /\ page[2].scrollWidth > page[2].offsetWidth + 1
    /\ page[3].tag = "div" /\ page[3].depth = 1
    /\ Len(issues) = 1
    /\ issues[1].node = 3


(***************************************************************************)
(* getComponentSource (inside Auditor.detectOverflows)                     *)
(*                                                                         *)
(* An element is a record of what the function reads: the attributes       *)
(* data-source, data-component, data-testid and data-test-id (None when    *)
(* absent), id ("" when absent) and fibers, the fiber records reachable    *)
(* from the element's __reactFiber$ property, the first being that         *)
(* property's value (an empty sequence when the element has no such        *)
(* property).  A fiber is a record: debugSource (None or a fileName and a  *)
(* lineNumber), typeKind ("string", "function" or "other": typeof type),   *)
(* name (the tag for a string type, displayName || name for a function),   *)
(* debugOwner and return (positions in fibers, 0 for null).                *)
(***************************************************************************)
INTERNAL_COMPONENTS ==
    {"SegmentViewNode", "OuterLayoutRouter", "InnerLayoutRouter", "AppRouter",
     "HotReload", "ErrorBoundary", "Suspense", "RenderFromTemplateContext",
     "ScrollAndFocusHandler", "RedirectBoundary", "NotFoundBoundary",
     "LoadingBoundary"}

\* The object getComponentSource returns, every field of which may be
\* undefined (None); the result itself is this object in a one-element
\* sequence, or NullSource for null.
SourceInfo(fileName, lineNumber, componentName) ==
    <<[fileName |-> fileName, lineNumber |-> lineNumber, componentName |-> componentName]>>

NullSource == <<>>

\* The position of the last ':' of the text, 0 when it has none.
LastColon(s) ==
    LET colons == {i \in 1..Len(s) : CharAt(s, i) = ":"}
    IN  IF colons = {} THEN 0 ELSE CHOOSE i \in colons : \A j \in colons : j <= i

\* dataSource.match(/^(.+):(\d+)$/): the digits after the last colon and
\* the text before it.
MatchesFileLine(s) ==
    /\ LastColon(s) > 1
    /\ LastColon(s) < Len(s)
    /\ \A i \in (LastColon(s) + 1)..Len(s) : IsDigit(CharAt(s, i))

\* file.split('/').pop()
LastSegment(file) ==
    LET slashes == {i \in 1..Len(file) : CharAt(file, i) = "/"}
    IN  IF slashes = {} THEN file
        ELSE SubSeq(file, (CHOOSE i \in slashes : \A j \in slashes : j <= i) + 1, Len(file))

\* replace(/\.\w+$/, '')
WithoutExtension(name) ==
    LET dots == {i \in 1..(Len(name) - 1) :
                   /\ CharAt(name, i) = "."
                   /\ \A j \in (i + 1)..Len(name) : IsWordChar(CharAt(name, j))}
    IN  IF dots = {} THEN name
        ELSE SubSeq(name, 1, (CHOOSE i \in dots : \A j \in dots : j <= i) - 1)

\* a || b on two optional attribute values.
OrElse(a, b) == IF TruthyString(a) THEN a ELSE b

\* The first tier: the data-source attribute.
fromDataSource(element) ==
    LET dataSource == element.dataSource[1]
        file == SubSeq(dataSource, 1, LastColon(dataSource) - 1)
        line == StringToNat(SubSeq(dataSource, LastColon(dataSource) + 1, Len(dataSource)))
    IN  SourceInfo(Some(file), Some(line),
                   OrElse(element.dataComponent, Some(WithoutExtension(LastSegment(file)))))

\* The component name of a fiber that has a source.
fiberComponentName(fiber) ==
    IF fiber.typeKind = "string" THEN Some(fiber.name)
    ELSE IF fiber.typeKind = "function"
            /\ fiber.name # "" /\ fiber.name \notin INTERNAL_COMPONENTS
    THEN Some(fiber.name)
    ELSE None

\* The while loop over the fibers, from position at.
RECURSIVE fromFiber(_, _)
fromFiber(fibers, at) ==
    IF at = 0 THEN NullSource
    ELSE IF fibers[at].debugSource # None /\ fibers[at].debugSource[1].fileName # ""
    THEN SourceInfo(Some(fibers[at].debugSource[1].fileName),
                    Some(fibers[at].debugSource[1].lineNumber),
                    fiberComponentName(fibers[at]))
    ELSE fromFiber(fibers, IF fibers[at].debugOwner # 0 THEN fibers[at].debugOwner
                           ELSE fibers[at].return)

\* The third tier: identifiers without a file.
fromIdentifiers(element) ==
    LET testId == OrElse(element.dataTestid, element.dataTestId)
    IN  IF TruthyString(element.dataComponent)
        THEN SourceInfo(None, None, element.dataComponent)
        ELSE IF TruthyString(testId) THEN SourceInfo(None, None, testId)
        ELSE IF element.id # "" THEN SourceInfo(None, None, Some("#" \o element.id))
        ELSE NullSource

\* A getComponentSource that asks the identifiers before the fibers.
getComponentSourceIdentifiersFirst(element) ==
    IF TruthyString(element.dataSource) /\ MatchesFileLine(element.dataSource[1])
    THEN fromDataSource(element)
    ELSE IF fromIdentifiers(element) # NullSource
    THEN fromIdentifiers(element)
    ELSE IF Len(element.fibers) > 0 THEN fromFiber(element.fibers, 1)
    ELSE NullSource

getComponentSource(element) ==
    IF TruthyString(element.dataSource) /\ MatchesFileLine(element.dataSource[1])
    THEN fromDataSource(element)
    ELSE IF Len(element.fibers) > 0 /\ fromFiber(element.fibers, 1) # NullSource
    THEN fromFiber(element.fibers, 1)
    ELSE fromIdentifiers(element)

(***************************************************************************)
(* The elements getComponentSource is applied to.                          *)
(***************************************************************************)
Fiber(debugSource, typeKind, name, debugOwner, return) ==
    [debugSource |-> debugSource, typeKind |-> typeKind, name |-> name,
     debugOwner |-> debugOwner, return |-> return]

DebugSource(fileName, lineNumber) ==
    Some([fileName |-> fileName, lineNumber |-> lineNumber])

FiberChains ==
    {<<>>,
     <<Fiber(DebugSource("src/Button.tsx", 10), "string", "button", 0, 0)>>,
     <<Fiber(None, "string", "span", 0, 2),
       Fiber(DebugSource("src/Card.tsx", 3), "function", "Card", 0, 0)>>,
     <<Fiber(None, "string", "span", 3, 2),
       Fiber(DebugSource("src/Wrapper.tsx", 1), "function", "Wrapper", 0, 0),
       Fiber(DebugSource("src/Owner.tsx", 5), "function", "Owner", 0, 0)>>,
     <<Fiber(DebugSource("app/layout.tsx", 2), "function", "AppRouter", 0, 0)>>,
     <<Fiber(DebugSource("", 0), "function", "Inline", 0, 2),
       Fiber(None, "other", "", 0, 0)>>,
     <<Fiber(DebugSource("src/Memo.tsx", 8), "other", "", 0, 0)>>}

SourceElements ==
    [dataSource : {None, Some(""), Some("App.tsx"), Some("src/App.tsx:12"),
                   Some("src/ui/Card.view.tsx:7:3")},
     dataComponent : {None, Some("Card")},
     dataTestid : {None, Some("submit-btn")},
     dataTestId : {None, Some("legacy-btn")},
     id : {"", "main"},
     fibers : FiberChains]

InitComponentSource ==
    /\ input \in SourceElements
    /\ applied = FALSE
    /\ output = <<>>
    /\ ExceptCallParked

GetComponentSource ==
    /\ ~applied
    /\ applied' = TRUE
    /\ output' = getComponentSource(input)
    /\ UNCHANGED <<input, exceptCallVars>>

NextComponentSource == GetComponentSource

SpecComponentSource == InitComponentSource /\ [][NextComponentSource]_vars


\* The places k of a ':' that splits the text into a file and a line number.
FileLineSplits(s) ==
    {k \in 2..(Len(s) - 1) :
        /\ CharAt(s, k) = ":"
        /\ \A i \in (k + 1)..Len(s) : IsDigit(CharAt(s, i))}

HasFileLine(element) ==
    element.dataSource # None /\ FileLineSplits(element.dataSource[1]) # {}

\* The positions the upward walk visits: the element's fiber, then of each
\* fiber its owner or, without an owner, its parent.
RECURSIVE Upward(_, _)
Upward(fibers, at) ==
    IF at = 0 \/ at > Len(fibers) THEN <<>>
    ELSE <<at>> \o Upward(fibers, IF fibers[at].debugOwner # 0 THEN fibers[at].debugOwner
                                  ELSE fibers[at].return)

CarriesSourceFile(fiber) ==
    fiber.debugSource # None /\ fiber.debugSource[1].fileName # ""

\* The places in the walk of the fibers that carry a debug source file.
SourcedSteps(element) ==
    {i \in 1..Len(Upward(element.fibers, 1)) :
        CarriesSourceFile(element.fibers[Upward(element.fibers, 1)[i]])}

NearestSourced(element) ==
    element.fibers[Upward(element.fibers, 1)[
        CHOOSE i \in SourcedSteps(element) : \A j \in SourcedSteps(element) : i <= j]]

\* The identifiers of the third tier, in the order they are asked.
Identifiers(element) ==
    SelectSeq(<<element.dataComponent, element.dataTestid, element.dataTestId,
                IF element.id = "" THEN None ELSE Some("#" \o element.id)>>,
              TruthyString)

C25_WitnessNull ==
    /\ applied
    /\ input.fibers # <<>>
    /\ SourcedSteps(input) = {}
    /\ Identifiers(input) = <<>>
    /\ output = NullSource


(***************************************************************************)
(* The enrichment loop of runLintAudit                                     *)
(*                                                                         *)
(* An issue is reduced to the fields the loop reads and writes.  A static  *)
(* index is the three maps of a SourceFinder after its scan.               *)
(***************************************************************************)
\* The source fields of the issue detectOverflows pushes for an element.
detectedIssue(element, textContent) ==
    LET source == getComponentSource(element)
    IN  [textContent |-> textContent,
         sourceFile |-> IF source = NullSource THEN None ELSE source[1].fileName,
         sourceLine |-> IF source = NullSource THEN None ELSE source[1].lineNumber,
         englishText |-> None]

\* The body of the loop over result.issues, for one issue.
enrichIssue(issue, locale, index, maps) ==
    LET sourceLocation == findSource(issue.textContent, index.i18n, index.jsx, index.string)
        located ==
            IF sourceLocation # NullLocation
            THEN [issue EXCEPT !.sourceFile = sourceLocation.file,
                               !.sourceLine = sourceLocation.line]
            ELSE issue
        englishEntry == findEnglishOriginal(issue.textContent, Some(locale), maps)
        engSource == findSource(englishEntry[1].englishText,
                                index.i18n, index.jsx, index.string)
    IN  IF locale = "en" \/ englishEntry = None THEN located
        ELSE IF TruthyString(located.sourceFile) \/ engSource = NullLocation
        THEN [located EXCEPT !.englishText = Some(englishEntry[1].englishText)]
        ELSE [located EXCEPT !.englishText = Some(englishEntry[1].englishText),
                             !.sourceFile = engSource.file,
                             !.sourceLine = engSource.line]

(***************************************************************************)
(* The issues, indexes and translations the loop is applied to.            *)
(***************************************************************************)
IndexedMaps ==
    {<<>>, addAllToMap(<<"Get Started">>, 1), addAllToMap(<<"Start", "Login">>, 2)}

StaticIndexes == [i18n : IndexedMaps, jsx : IndexedMaps, string : IndexedMaps]

EnrichedElements ==
    {e \in SourceElements :
        /\ e.dataSource \in {None, Some("App.tsx"), Some("src/App.tsx:12")}
        /\ e.dataComponent = None /\ e.dataTestid = None /\ e.dataTestId = None
        /\ e.id = ""
        /\ Len(e.fibers) <= 1
        /\ Len(e.fibers) = 1 => e.fibers[1].name = "button"}

EnrichedTexts == {"Get Started", "Starten", "Willkommen", ""}

EnrichedDirectories ==
    {<<>>,
     <<File("en.json", "json", <<Member("login", "Login"), Member("title", "Email login"),
                                 Member("cta", "Start")>>),
       File("de.json", "json", <<Member("cta", "Starten")>>)>>,
     <<File("en.json", "json", <<Member("cta", "Get Started")>>),
       File("de.json", "json", <<Member("cta", "Starten")>>),
       File("fr.json", "json", <<Member("cta", "Commencer")>>)>>}

EnrichedLocales == {"en", "de", "fr"}

InitEnrich ==
    /\ input \in [element : EnrichedElements,
                  textContent : EnrichedTexts,
                  locale : EnrichedLocales,
                  index : StaticIndexes,
                  maps : {translationMapsAfterLoad(dir) : dir \in EnrichedDirectories}]
    /\ applied = FALSE
    /\ output = <<>>
    /\ ExceptCallParked

Enrich ==
    /\ ~applied
    /\ applied' = TRUE
    /\ output' = enrichIssue(detectedIssue(input.element, input.textContent),
                             input.locale, input.index, input.maps)
    /\ UNCHANGED <<input, exceptCallVars>>

NextEnrich == Enrich

SpecEnrich == InitEnrich /\ [][NextEnrich]_vars

\* C27: an issue whose element carried a data-source marker of the form
\* file:line has, after the enrichment loop, the sourceFile and sourceLine
\* detection took from the marker, whatever the static index contains.
C27_MarkerSourceKept ==
    (applied /\ HasFileLine(input.element)) =>
        /\ output.sourceFile = detectedIssue(input.element, input.textContent).sourceFile
        /\ output.sourceLine = detectedIssue(input.element, input.textContent).sourceLine

\* The marker's file and line are kept whenever the static index has no
\* match for the issue's text.
C27_MarkerSourceKeptWithoutMatch ==
    (/\ applied
     /\ HasFileLine(input.element)
     /\ findSource(input.textContent, input.index.i18n, input.index.jsx,
                   input.index.string) = NullLocation) =>
        /\ output.sourceFile = detectedIssue(input.element, input.textContent).sourceFile
        /\ output.sourceLine = detectedIssue(input.element, input.textContent).sourceLine

\* An issue marked src/App.tsx:12 whose text the static index holds at
\* a.tsx:1 leaves the loop attributed to a.tsx:1.
C27_Witness ==
    /\ applied
    /\ input.element.dataSource = Some("src/App.tsx:12")
    /\ input.textContent = "Get Started"
    /\ input.index.jsx # <<>>
    /\ detectedIssue(input.element, input.textContent).sourceFile = Some("src/App.tsx")
    /\ output.sourceFile = Some("a.tsx")
    /\ output.sourceLine = Some(1)


(***************************************************************************)
(* findSource of a text without content                                    *)
(***************************************************************************)
\* A lookup has been made with a text whose normalized form is empty.
EmptyLookup == scanned /\ lookup # <<>> /\ normalizeText(lookup[1]) = ""

\* C30: findSource returns null for a query whose normalized form is the
\* empty string, whatever the three maps contain.
C30_EmptyQueryFindsNothing ==
    EmptyLookup => lookup[2] = NullLocation

\* What findSource returns for such a query: null only when the three maps
\* are empty, else the first location of the first entry that
\* Object.entries lists of the first map, in the order i18n, jsx, string,
\* that has an entry.
C30_EmptyQueryFindsFirstEntry ==
    EmptyLookup =>
        LET first == IF i18nMap # <<>> THEN "i18n"
                     ELSE IF jsxMap # <<>> THEN "jsx" ELSE "string"
        IN  IF MapOf(first) = <<>> THEN lookup[2] = NullLocation
            ELSE lookup[2] = LocationWith(ObjectEntries(MapOf(first))[1].locations[1], first)

\* The scan recorded a text and the lookup of an empty text returned its
\* location.
C30_Witness ==
    /\ EmptyLookup
    /\ i18nMap = <<>>
    /\ jsxMap # <<>>
    /\ lookup[2] # NullLocation
    /\ lookup[2].priority = "jsx"


(***************************************************************************)
(* An Auditor used on its own: init, audit and close in any order          *)
(*                                                                         *)
(* browser and context say whether this.browser and this.context are set.  *)
(* A call is given the step of it that rejects, if any; calls keeps, for   *)
(* every call made, its outcome and the two fields as it left them.        *)
(***************************************************************************)
MaxCalls == 4

AuditorAfter(nowBrowser, nowContext, outcome) ==
    [browser |-> nowBrowser, context |-> nowContext, outcome |-> outcome]

InitFaults == {"none", "launch", "newContext"}
CloseFaults == {"none", "context.close", "browser.close"}

\* init(): fault is the awaited call that rejects.
init(hasBrowser, hasContext, fault) ==
    IF hasBrowser THEN AuditorAfter(hasBrowser, hasContext, "returned")
    ELSE IF fault = "launch"
    THEN AuditorAfter(FALSE, hasContext, "launch rejected")
    ELSE IF fault = "newContext"
    THEN AuditorAfter(TRUE, hasContext, "newContext rejected")
    ELSE AuditorAfter(TRUE, TRUE, "returned")

\* close(): fault is the awaited call that rejects.
close(hasBrowser, hasContext, fault) ==
    IF hasContext /\ fault = "context.close"
    THEN AuditorAfter(hasBrowser, hasContext, "context.close rejected")
    ELSE IF hasBrowser /\ fault = "browser.close"
    THEN AuditorAfter(hasBrowser, FALSE, "browser.close rejected")
    ELSE AuditorAfter(FALSE, FALSE, "returned")

\* audit() up to its return: init when a field is missing, then newPage on
\* the context; pageFails says whether a later step of the audit rejects.
audit(hasBrowser, hasContext, fault, pageFails) ==
    LET ready == IF ~hasBrowser \/ ~hasContext THEN init(hasBrowser, hasContext, fault)
                 ELSE AuditorAfter(hasBrowser, hasContext, "returned")
    IN  IF ready.outcome # "returned" THEN ready
        ELSE IF ~ready.context
        THEN AuditorAfter(ready.browser, ready.context, "newPage on null")
        ELSE AuditorAfter(ready.browser, ready.context,
                          IF pageFails THEN "rejected" ELSE "returned")

InitAuditor == AuditParked /\ ExceptAuditParked

\* A call of the method op leaves the auditor as after says.
Called(op, after) ==
    /\ Len(calls) < MaxCalls
    /\ browser' = after.browser
    /\ context' = after.context
    /\ calls' = Append(calls, [op |-> op, outcome |-> after.outcome,
                               browser |-> after.browser, context |-> after.context])
    /\ UNCHANGED <<locales, failOnError, lintPc, localeAt, openPages, thrownBy,
                   transforms, auditResults, exitCode, exceptAuditVars>>

CallInit(fault) == Called("init", init(browser, context, fault))

CallClose(fault) == Called("close", close(browser, context, fault))

CallAudit(fault, pageFails) == Called("audit", audit(browser, context, fault, pageFails))

NextAuditor ==
    \/ \E fault \in InitFaults : CallInit(fault)
    \/ \E fault \in CloseFaults : CallClose(fault)
    \/ \E fault \in InitFaults, pageFails \in BOOLEAN : CallAudit(fault, pageFails)

SpecAuditor == InitAuditor /\ [][NextAuditor]_vars

\* C29: after any sequence of init, audit and close calls, failed ones
\* included, a normal return of init() leaves both the browser and the
\* context set, and audit() never opens a page on a missing context.
C29_InitReturnLeavesBothSet ==
    \A i \in 1..Len(calls) :
        /\ (calls[i].op = "init" /\ calls[i].outcome = "returned")
               => (calls[i].browser /\ calls[i].context)
        /\ calls[i].outcome # "newPage on null"

\* The same holds as long as no awaited newContext or browser.close has
\* rejected before.
C29_HoldsUntilAPartialFailure ==
    \A i \in 1..Len(calls) :
        (\A j \in 1..(i - 1) :
            calls[j].outcome \notin {"newContext rejected", "browser.close rejected"})
        => /\ (calls[i].op = "init" /\ calls[i].outcome = "returned")
                  => (calls[i].browser /\ calls[i].context)
           /\ calls[i].outcome # "newPage on null"

\* init() launched the browser and failed to create the context; the
\* next init() returned normally without a context and audit() then
\* called newPage on null.
C29_Witness ==
    /\ Len(calls) = 3
    /\ calls[1] = [op |-> "init", outcome |-> "newContext rejected",
                   browser |-> TRUE, context |-> FALSE]
    /\ calls[2] = [op |-> "init", outcome |-> "returned",
                   browser |-> TRUE, context |-> FALSE]
    /\ calls[3].op = "audit"
    /\ calls[3].outcome = "newPage on null"

=============================================================================
